---- MODULE Spec2Model ----
(***************************************************************************)
(* The census page codec of the transcription program: the encoder         *)
(* (template.WriteHTML and the monolithic writeHTML) and the decoder        *)
(* (parser.ParseHTML and the monolithic parseHTML).                         *)
(*                                                                          *)
(* Representation.                                                          *)
(*  - A string is a sequence of one-character strings.                      *)
(*  - A document is a tree of nodes [type, data, attr, kids]; a *html.Node  *)
(*    is the path (sequence of 1-based child indices) from the root; the    *)
(*    nil pointer is the path nil.  Parent, FirstChild and NextSibling are  *)
(*    computed from the path.                                               *)
(*  - A file holds the markup the template produced, as the tree of its     *)
(*    tags with the character data as written (escaped); html.Parse turns   *)
(*    it into the DOM: tag and attribute names folded to lower case,        *)
(*    character data with newlines converted and character references       *)
(*    decoded.                                                              *)
(***************************************************************************)
EXTENDS Integers, Sequences, FiniteSets, TLC

RowCount == 25
FieldCount == 12
HeadCount == 7
FootCount == 4

(***************************************************************************)
(* Strings                                                                  *)
(***************************************************************************)

\* The white space strings.TrimSpace removes, as far as the model's
\* alphabet has it.
WhiteSpace == {" ", "\t", "\n", "\r"}

MinOf(S) == CHOOSE x \in S : \A y \in S : x <= y
MaxOf(S) == CHOOSE x \in S : \A y \in S : y <= x

\* strings.TrimSpace
TrimSpace(s) ==
    LET keep == {i \in 1..Len(s) : s[i] \notin WhiteSpace}
    IN  IF keep = {} THEN <<>> ELSE SubSeq(s, MinOf(keep), MaxOf(keep))

\* f as a sequence whose elements are computed once
Strict(f) == <<>> \o f

RECURSIVE ConcatRange(_, _, _)
\* ss[lo] \o ... \o ss[hi], by halves
ConcatRange(ss, lo, hi) ==
    IF lo > hi THEN <<>>
    ELSE IF lo = hi THEN ss[lo]
    ELSE LET mid == (lo + hi) \div 2
         IN  ConcatRange(ss, lo, mid) \o ConcatRange(ss, mid + 1, hi)

\* the concatenation of a sequence of sequences
Concat(ss) == LET strict == Strict(ss) IN ConcatRange(strict, 1, Len(strict))

\* html.EscapeString (package html): the five characters it replaces.
EscapeChar(c) ==
    CASE c = "&"  -> <<"&", "a", "m", "p", ";">>
      [] c = "'"  -> <<"&", "#", "3", "9", ";">>
      [] c = "<"  -> <<"&", "l", "t", ";">>
      [] c = ">"  -> <<"&", "g", "t", ";">>
      [] c = "\"" -> <<"&", "#", "3", "4", ";">>
      [] OTHER    -> <<c>>

EscapeString(v) == Concat([i \in 1..Len(v) |-> EscapeChar(v[i])])

\* html/template's escaper for a string printed in element content
\* ({{index .Footer k}}): html.EscapeString's five characters and "+".
HTMLEscapeChar(c) ==
    IF c = "+" THEN <<"&", "#", "4", "3", ";">> ELSE EscapeChar(c)

HTMLEscaper(v) == Concat([i \in 1..Len(v) |-> HTMLEscapeChar(v[i])])

\* The character references the tokenizer of html.Parse decodes, as far as
\* the two escapers above can write them (always with the closing ";").
Entities ==
    { [ref |-> <<"&", "a", "m", "p", ";">>,       ch |-> "&"],
      [ref |-> <<"&", "l", "t", ";">>,            ch |-> "<"],
      [ref |-> <<"&", "g", "t", ";">>,            ch |-> ">"],
      [ref |-> <<"&", "q", "u", "o", "t", ";">>,  ch |-> "\""],
      [ref |-> <<"&", "#", "3", "4", ";">>,       ch |-> "\""],
      [ref |-> <<"&", "#", "3", "8", ";">>,       ch |-> "&"],
      [ref |-> <<"&", "#", "3", "9", ";">>,       ch |-> "'"],
      [ref |-> <<"&", "#", "4", "3", ";">>,       ch |-> "+"],
      [ref |-> <<"&", "#", "6", "0", ";">>,       ch |-> "<"],
      [ref |-> <<"&", "#", "6", "2", ";">>,       ch |-> ">"] }

EntityAt(s, i) ==
    {e \in Entities : /\ i + Len(e.ref) - 1 <= Len(s)
                      /\ SubSeq(s, i, i + Len(e.ref) - 1) = e.ref}

\* The tokenizer's unescape: a left-to-right scan that replaces each
\* reference by its character.  A reference holds "&" only as its first
\* character, so no reference starts inside another and the scan replaces
\* exactly the references that start at some position of s.
Unescape(s) ==
    LET amps == {j \in 1..Len(s) : s[j] = "&"}
        inside(i) == \E j \in amps : j < i /\ \E e \in EntityAt(s, j) : i <= j + Len(e.ref) - 1
    IN  IF amps = {} THEN s
        ELSE Concat([i \in 1..Len(s) |->
                       IF s[i] = "&" /\ EntityAt(s, i) # {}
                       THEN <<(CHOOSE e \in EntityAt(s, i) : TRUE).ch>>
                       ELSE IF inside(i) THEN <<>> ELSE <<s[i]>>])

\* the tokenizer's convertNewlines: "\r\n" and "\r" become "\n"
ConvertNewlines(s) ==
    IF \A i \in 1..Len(s) : s[i] # "\r" THEN s
    ELSE Concat([i \in 1..Len(s) |->
                   IF s[i] = "\r" THEN <<"\n">>
                   ELSE IF s[i] = "\n" /\ i > 1 /\ s[i - 1] = "\r" THEN <<>>
                   ELSE <<s[i]>>])

\* The text of a text token: Tokenizer.Text of html.Parse.
TokenText(raw) == Unescape(ConvertNewlines(raw))

(***************************************************************************)
(* Nodes (golang.org/x/net/html Node) and the tree walks of the decoder    *)
(***************************************************************************)

Attr(key, val) == [key |-> key, val |-> val]
Elem(tag, attr, kids) == [type |-> "element", data |-> tag, attr |-> attr, kids |-> kids]
Text(s) == [type |-> "text", data |-> s, attr |-> <<>>, kids |-> <<>>]
Comment(s) == [type |-> "comment", data |-> s, attr |-> <<>>, kids |-> <<>>]
Doctype == [type |-> "doctype", data |-> "html", attr |-> <<>>, kids |-> <<>>]
Document(kids) == [type |-> "document", data |-> "", attr |-> <<>>, kids |-> kids]

\* the nil *html.Node: no path has a child index 0
nil == <<0>>

RECURSIVE At(_, _)
\* the node a pointer refers to
At(n, p) == IF p = <<>> THEN n ELSE At(n.kids[Head(p)], Tail(p))

Parent(n) == IF n = <<>> THEN nil ELSE SubSeq(n, 1, Len(n) - 1)

FirstChild(doc, n) == IF At(doc, n).kids # <<>> THEN n \o <<1>> ELSE nil

NextSibling(doc, n) ==
    IF n = <<>> THEN nil
    ELSE IF n[Len(n)] < Len(At(doc, Parent(n)).kids)
         THEN Parent(n) \o <<n[Len(n)] + 1>>
         ELSE nil

\* the names html.Parse folds to lower case, as far as the model writes them
Lower(name) ==
    CASE name = "PersonRef" -> "personref"
      [] name = "PlaceRef"  -> "placeref"
      [] name = "Mark"      -> "mark"
      [] name = "TD"        -> "td"
      [] name = "COLSPAN"   -> "colspan"
      [] OTHER              -> name

\* adjacent character data makes one text node, empty character data none
MergeText(kids) ==
    LET isText(i) == i >= 1 /\ i <= Len(kids) /\ kids[i].type = "text"
        \* the last index of the run of text that starts at i
        runEnd(i) == CHOOSE j \in i..Len(kids) :
                        ~isText(j + 1) /\ \A k \in i..(j - 1) : isText(k + 1)
        run(i) == Concat([j \in 1..(runEnd(i) - i + 1) |-> kids[i + j - 1].data])
    IN  IF \A i \in 1..Len(kids) : isText(i) => (~isText(i + 1) /\ kids[i].data # <<>>)
        THEN kids
        ELSE Concat([i \in 1..Len(kids) |->
                       IF ~isText(i) THEN <<kids[i]>>
                       ELSE IF isText(i - 1) \/ run(i) = <<>> THEN <<>>
                       ELSE <<Text(run(i))>>])

RECURSIVE Parse(_)
\* html.Parse of the markup m: the DOM of a document whose tags are nested
\* as written
Parse(m) ==
    CASE m.type = "text" -> Text(TokenText(m.data))
      [] m.type = "element" ->
            Elem(Lower(m.data),
                 Strict([i \in 1..Len(m.attr) |-> Attr(Lower(m.attr[i].key), m.attr[i].val)]),
                 LET raw == MergeText(m.kids)
                 IN  Strict([i \in 1..Len(raw) |-> Parse(raw[i])]))
      [] m.type = "document" ->
            Document(LET raw == MergeText(m.kids)
                     IN  Strict([i \in 1..Len(raw) |-> Parse(raw[i])]))
      [] OTHER -> m

RECURSIVE walk(_)
\* text's inner walk: the text nodes under a node, in document order
walk(node) ==
    (IF node.type = "text" THEN node.data ELSE <<>>)
        \o Concat([i \in 1..Len(node.kids) |-> walk(node.kids[i])])

text(doc, n) == IF n = nil THEN <<>> ELSE TrimSpace(walk(At(doc, n)))

\* is, on the node itself
isNode(node, tag) == node.type = "element" /\ node.data = tag

is(doc, n, tag) == n # nil /\ isNode(At(doc, n), tag)

RECURSIVE ancestorFrom(_, _, _)
ancestorFrom(doc, p, tag) ==
    IF p = nil THEN FALSE
    ELSE IF isNode(At(doc, p), tag) THEN TRUE
    ELSE ancestorFrom(doc, Parent(p), tag)

ancestorTag(doc, n, tag) == ancestorFrom(doc, Parent(n), tag)

\* hasColspan looking at the first attribute only
hasColspan_FirstAttrOnly(node) == node.attr # <<>> /\ node.attr[1].key = "colspan"

hasColspan(node) == \E i \in 1..Len(node.attr) : node.attr[i].key = "colspan"

RECURSIVE collectThFrom(_, _, _)
\* collectTh at the node n, which is node
collectThFrom(doc, n, node) ==
    (IF isNode(node, "th") THEN <<n>> ELSE <<>>)
        \o (IF node.kids = <<>> THEN <<>>
            ELSE Concat([i \in 1..Len(node.kids) |->
                           collectThFrom(doc, n \o <<i>>, node.kids[i])]))

collectTh(doc, n) == collectThFrom(doc, n, At(doc, n))

\* the children of n, first to last: what the loop
\* c := n.FirstChild; c != nil; c = c.NextSibling visits
Children(doc, n) == Strict([i \in 1..Len(At(doc, n).kids) |-> n \o <<i>>])

\* the inner loop of the header: the first br among th's children, or nil
firstBr(doc, th) ==
    LET brs == {i \in 1..Len(At(doc, th).kids) : is(doc, th \o <<i>>, "br")}
    IN  IF brs = {} THEN nil ELSE th \o <<MinOf(brs)>>

\* headLoop with idx advanced at every th, with or without br
headLoop_EveryTh(doc, ths) ==
    [idx \in 0..HeadCount - 1 |->
        IF idx < Len(ths) /\ firstBr(doc, ths[idx + 1]) # nil
        THEN TrimSpace(text(doc, NextSibling(doc, firstBr(doc, ths[idx + 1]))))
        ELSE <<>>]

\* the header loop: a th without br is passed over, the idx-th th that has
\* one fills head[idx], and the loop ends at idx = HeadCount
headLoop(doc, ths) ==
    LET found == SelectSeq(ths, LAMBDA th : firstBr(doc, th) # nil)
    IN  [idx \in 0..HeadCount - 1 |->
            IF idx < Len(found)
            THEN TrimSpace(text(doc, NextSibling(doc, firstBr(doc, found[idx + 1]))))
            ELSE <<>>]

RECURSIVE collectTrFrom(_, _, _)
\* collectTr at the node n, which is node
collectTrFrom(doc, n, node) ==
    (IF isNode(node, "tr") /\ ancestorTag(doc, n, "tbody") THEN <<n>> ELSE <<>>)
        \o (IF node.kids = <<>> THEN <<>>
            ELSE Concat([i \in 1..Len(node.kids) |->
                           collectTrFrom(doc, n \o <<i>>, node.kids[i])]))

collectTr(doc, n) == collectTrFrom(doc, n, At(doc, n))

RECURSIVE tdsUnder(_, _)
\* the td at any depth under the node n, in document order
tdsUnder(doc, n) ==
    Concat([i \in 1..Len(At(doc, n).kids) |->
              (IF is(doc, n \o <<i>>, "td") THEN <<n \o <<i>>>> ELSE <<>>)
                 \o tdsUnder(doc, n \o <<i>>)])

\* rowLoop over the td at any depth under tr instead of its children
rowLoop_AnyDepth(doc, tr) ==
    LET tds == tdsUnder(doc, tr)
    IN  [ci \in 0..FieldCount - 1 |->
            IF ci < Len(tds) THEN text(doc, tds[ci + 1]) ELSE <<>>]

\* the inner loop of the body: the ci-th td among tr's children fills
\* Col[ci], other children are passed over, and the loop ends at
\* ci = FieldCount
rowLoop(doc, tr) ==
    LET tds == SelectSeq(Children(doc, tr), LAMBDA c : is(doc, c, "td"))
    IN  [ci \in 0..FieldCount - 1 |->
            IF ci < Len(tds) THEN text(doc, tds[ci + 1]) ELSE <<>>]

RECURSIVE walkFooterFrom(_, _, _)
\* walkFooter at the node n, which is node: the values it appends to
\* footvals; at a tfoot td with colspan it returns before its children
walkFooterFrom(doc, n, node) ==
    LET cell == isNode(node, "td") /\ ancestorTag(doc, n, "tfoot")
    IN  IF cell /\ hasColspan(node) THEN <<>>
        ELSE (IF cell THEN <<text(doc, n)>> ELSE <<>>)
                \o (IF node.kids = <<>> THEN <<>>
                    ELSE Concat([i \in 1..Len(node.kids) |->
                                   walkFooterFrom(doc, n \o <<i>>, node.kids[i])]))

walkFooter(doc, n) == walkFooterFrom(doc, n, At(doc, n))

\* the zero values of ParseHTML's var head, rows, foot
BlankHead == [i \in 0..HeadCount - 1 |-> <<>>]
BlankRow == [Col |-> [i \in 0..FieldCount - 1 |-> <<>>]]
BlankRows == [r \in 0..RowCount - 1 |-> BlankRow]
BlankFoot == [i \in 0..FootCount - 1 |-> <<>>]

\* what a path holds: no file, or the markup written there
NoFile == [type |-> "nofile"]

\* a file that opens, delivers the markup f and then fails to read: html.Parse
\* returns the reader's error
ReadFails(f) == [type |-> "readfails", read |-> f]

headOf(doc) == headLoop(doc, collectTh(doc, <<>>))

\* rowsOf without the bound ri < RowCount on the rows but with the index
\* wrapped: a row past the last slot overwrites an earlier one
rowsOf_WrapAround(doc) ==
    LET trs == collectTr(doc, <<>>)
        last(ri) == MaxOf({k \in 1..Len(trs) : (k - 1) % RowCount = ri})
    IN  [ri \in 0..RowCount - 1 |->
            IF ri < Len(trs) THEN [Col |-> rowLoop(doc, trs[last(ri)])] ELSE BlankRow]

\* rowsOf with the slots past the last row filled from the last row
rowsOf_RepeatLast(doc) ==
    LET trs == collectTr(doc, <<>>)
    IN  [ri \in 0..RowCount - 1 |->
            IF ri < Len(trs) THEN [Col |-> rowLoop(doc, trs[ri + 1])]
            ELSE IF Len(trs) > 0 THEN [Col |-> rowLoop(doc, trs[Len(trs)])]
            ELSE BlankRow]

rowsOf(doc) ==
    LET trs == collectTr(doc, <<>>)
    IN  [ri \in 0..RowCount - 1 |->
            IF ri < Len(trs)
            THEN [Col |-> rowLoop(doc, trs[ri + 1])]
            ELSE BlankRow]

footOf(doc) ==
    LET footvals == walkFooter(doc, <<>>)
    IN  [i \in 0..FootCount - 1 |-> IF i < Len(footvals) THEN footvals[i + 1] ELSE <<>>]

\* ParseHTML returning what it decodes of the markup read before the error
ParseHTML_KeepsPartial(f) ==
    IF f = NoFile
    THEN [head |-> BlankHead, rows |-> BlankRows, foot |-> BlankFoot, err |-> "open"]
    ELSE LET doc == Parse(IF f.type = "readfails" THEN f.read ELSE f)
         IN  [head |-> headOf(doc), rows |-> rowsOf(doc), foot |-> footOf(doc),
              err |-> IF f.type = "readfails" THEN "parse" ELSE "nil"]

\* parser.ParseHTML on the content f of the path it is given
ParseHTML(f) ==
    IF f = NoFile
    THEN [head |-> BlankHead, rows |-> BlankRows, foot |-> BlankFoot, err |-> "open"]
    ELSE IF f.type = "readfails"
    THEN [head |-> BlankHead, rows |-> BlankRows, foot |-> BlankFoot, err |-> "parse"]
    ELSE LET doc == Parse(f)
         IN  [head |-> headOf(doc), rows |-> rowsOf(doc), foot |-> footOf(doc), err |-> "nil"]

\* the monolithic parseHTML: the same code as parser.ParseHTML
parseHTML(f) ==
    IF f = NoFile
    THEN [head |-> BlankHead, rows |-> BlankRows, foot |-> BlankFoot, err |-> "open"]
    ELSE IF f.type = "readfails"
    THEN [head |-> BlankHead, rows |-> BlankRows, foot |-> BlankFoot, err |-> "parse"]
    ELSE LET doc == Parse(f)
         IN  [head |-> headOf(doc), rows |-> rowsOf(doc), foot |-> footOf(doc), err |-> "nil"]

(***************************************************************************)
(* The encoder: wrapCell, headerVal and the two page templates.  The        *)
(* monolithic program's wrapCell and headerVal are the same code as the     *)
(* template package's.  A template.HTML value is the sequence of nodes it   *)
(* writes.  html/template drops the template's comments; the stylesheet's   *)
(* text and the column labels that hold no br are shortened, the runs of    *)
(* white space between tags are written as WS.                              *)
(***************************************************************************)

LblBoundaries ==
    <<"\n", " ", "T", "h", "e", " ", "u", "n", "d", "e", "r", "m", "e",
      "n", "t", "i", "o", "n", "e", "d", " ", "H", "o", "u", "s", "e", "s",
      " ", "a", "r", "e", " ", "s", "i", "t", "u", "a", "t", "e", " ", "w",
      "i", "t", "h", "i", "n", " ", "t", "h", "e", " ", "B", "o", "u", "n",
      "d", "a", "r", "i", "e", "s", " ", "o", "f", " ", "t", "h", "e",
      "\n", " ">>

LblParish ==
    <<"P", "a", "r", "i", "s", "h", " ", "[", "o", "r", " ", "T", "o", "w",
      "n", "s", "h", "i", "p", "]", " ", "o", "f">>

LblCity ==
    <<"C", "i", "t", "y", " ", "o", "r", " ", "M", "u", "n", "i", "c", "i",
      "p", "a", "l", " ", "B", "o", "r", "o", "u", "g", "h", " ", "o", "f">>

LblWard ==
    <<"M", "u", "n", "i", "c", "i", "p", "a", "l", " ", "W", "a", "r", "d",
      " ", "o", "f">>

LblBorough ==
    <<"P", "a", "r", "l", "i", "a", "m", "e", "n", "t", "a", "r", "y", " ",
      "B", "o", "r", "o", "u", "g", "h", " ", "o", "f">>

LblTown ==
    <<"T", "o", "w", "n", " ", "o", "f">>

LblVillage ==
    <<"V", "i", "l", "l", "a", "g", "e", " ", "o", "r", " ", "H", "a", "m",
      "l", "e", "t", " ", "o", "f">>

LblHamlet ==
    <<"H", "a", "m", "l", "e", "t", " ", "o", "r", " ", "T", "y", "t", "h",
      "i", "n", "g", ",", " ", "&", "a", "m", "p", ";", "c", ".", ",", " ",
      "o", "f">>

LblDistrict ==
    <<"E", "c", "c", "l", "e", "s", "i", "a", "s", "t", "i", "c", "a", "l",
      " ", "D", "i", "s", "t", "r", "i", "c", "t", " ", "o", "f">>

LblNo ==
    <<"N", "o", ".">>

LblSchedule ==
    <<"S", "c", "h", "e", "d", "u", "l", "e">>

LblRoad ==
    <<"R", "o", "a", "d", ",", " ", "S", "t", "r", "e", "e", "t", ",", " ",
      "&", "a", "m", "p", ";", "c", ";">>

LblHouse ==
    <<"&", "a", "m", "p", ";", " ", "N", "o", ".", " ", "o", "r", " ", "N",
      "a", "m", "e", " ", "o", "f", " ", "H", "o", "u", "s", "e">>

LblTotalHouses ==
    <<"T", "o", "t", "a", "l", " ", "o", "f", " ", "H", "o", "u", "s", "e",
      "s", ".", ".", ".">>

LblTotalPersons ==
    <<"T", "o", "t", "a", "l", " ", "o", "f", " ", "M", "a", "l", "e", "s",
      " ", "a", "n", "d", " ", "F", "e", "m", "a", "l", "e", "s", ".", ".",
      ".">>

WS == Text(<<"\n", " ">>)

\* a label th of the column-header rows: no br among its children
ColTh(class) == Elem("th", <<Attr("class", <<class>>)>>, <<Text(<<"c", "o", "l">>)>>)

\* wrapCell without the escaping of v
wrapCell_NoEscape(v, row, col) ==
    IF v = <<>> THEN <<>>
    ELSE LET r == row + 1
             c == col + 1
         IN  CASE col = 4 ->
                    <<Elem("PersonRef", <<Attr("detlnk", <<"dpR", r, "C", c>>)>>, <<Text(v)>>)>>
               [] col \in {1, 10} ->
                    <<Elem("PlaceRef", <<Attr("detlnk", <<"dwR", r, "C", c>>)>>, <<Text(v)>>)>>
               [] OTHER ->
                    <<Elem("Mark", <<Attr("ref", <<"R", r, "C", c>>)>>, <<Text(v)>>)>>

\* wrapCell with the 0-based row in the attribute
wrapCell_ZeroBasedRow(v, row, col) ==
    IF v = <<>> THEN <<>>
    ELSE LET esc == EscapeString(v)
             r == row
             c == col + 1
         IN  CASE col = 4 ->
                    <<Elem("PersonRef", <<Attr("detlnk", <<"dpR", r, "C", c>>)>>, <<Text(esc)>>)>>
               [] col \in {1, 10} ->
                    <<Elem("PlaceRef", <<Attr("detlnk", <<"dwR", r, "C", c>>)>>, <<Text(esc)>>)>>
               [] OTHER ->
                    <<Elem("Mark", <<Attr("ref", <<"R", r, "C", c>>)>>, <<Text(esc)>>)>>

\* wrapCell without the test for the empty value
wrapCell_WrapEmpty(v, row, col) ==
    LET esc == EscapeString(v)
        r == row + 1
        c == col + 1
    IN  CASE col = 4 ->
               <<Elem("PersonRef", <<Attr("detlnk", <<"dpR", r, "C", c>>)>>, <<Text(esc)>>)>>
          [] col \in {1, 10} ->
               <<Elem("PlaceRef", <<Attr("detlnk", <<"dwR", r, "C", c>>)>>, <<Text(esc)>>)>>
          [] OTHER ->
               <<Elem("Mark", <<Attr("ref", <<"R", r, "C", c>>)>>, <<Text(esc)>>)>>

wrapCell(v, row, col) ==
    IF v = <<>> THEN <<>>
    ELSE LET esc == EscapeString(v)
             r == row + 1
             c == col + 1
         IN  CASE col = 4 ->
                    <<Elem("PersonRef", <<Attr("detlnk", <<"dpR", r, "C", c>>)>>, <<Text(esc)>>)>>
               [] col \in {1, 10} ->
                    <<Elem("PlaceRef", <<Attr("detlnk", <<"dwR", r, "C", c>>)>>, <<Text(esc)>>)>>
               [] OTHER ->
                    <<Elem("Mark", <<Attr("ref", <<"R", r, "C", c>>)>>, <<Text(esc)>>)>>

headerVal(v) ==
    IF v = <<>> THEN <<>>
    ELSE <<Elem("br", <<>>, <<>>), Text(EscapeString(v))>>

\* <th style=...>label{{headerVal (index .Header i)}}</th>
HeaderTh(label, v) ==
    Elem("th", <<Attr("style", <<"line-height:5em; padding-bottom:2em;">>)>>,
         <<Text(label)>> \o headerVal(v))

\* the row of the seven header cells
HeaderTr(labels, Header) ==
    Elem("tr", <<>>,
         <<WS>> \o Concat([i \in 1..Len(labels) |-> <<HeaderTh(labels[i], Header[i - 1]), WS>>]))

\* <tr><th colspan="7" align="center">...</th></tr>
BoundariesTr ==
    Elem("tr", <<>>,
         <<Elem("th", <<Attr("colspan", <<"7">>), Attr("align", <<"center">>)>>,
                <<Text(LblBoundaries)>>)>>)

\* BodyTr with the td of an empty value left out
BodyTr_SkipEmpty(row, ri) ==
    Elem("tr", <<>>,
         Concat([k \in 1..Cardinality(DOMAIN row.Col) |->
                   IF row.Col[k - 1] = <<>> THEN <<>>
                   ELSE <<Elem("td", <<>>, wrapCell(row.Col[k - 1], ri, k - 1))>>]))

\* <tr>{{range $ci, $val := $row.Col}}<td>{{wrapCell $val $ri $ci}}</td>{{end}}</tr>
BodyTr(row, ri) ==
    Elem("tr", <<>>,
         Strict([k \in 1..Cardinality(DOMAIN row.Col) |->
                    Elem("td", <<>>, wrapCell(row.Col[k - 1], ri, k - 1))]))

\* Tbody with the rows that hold no value left out
Tbody_SkipBlankRows(Rows) ==
    Elem("tbody", <<>>,
         <<WS>> \o Concat([k \in 1..Cardinality(DOMAIN Rows) |->
                              IF \A c \in DOMAIN Rows[k - 1].Col : Rows[k - 1].Col[c] = <<>>
                              THEN <<>>
                              ELSE <<WS, BodyTr(Rows[k - 1], k - 1), WS>>]))

\* <tbody>{{range $ri, $row := .Rows}} <tr>...</tr> {{end}}</tbody>
Tbody(Rows) ==
    Elem("tbody", <<>>,
         <<WS>> \o Concat([k \in 1..Cardinality(DOMAIN Rows) |->
                              <<WS, BodyTr(Rows[k - 1], k - 1), WS>>]))

\* <td>{{index .Footer k}}</td>: html/template escapes the string
FooterTd(v) == Elem("td", <<>>, <<Text(HTMLEscaper(v))>>)

Tfoot(Footer) ==
    Elem("tfoot", <<>>,
      <<WS,
        Elem("tr", <<>>,
          <<WS,
            Elem("td", <<Attr("colspan", <<"2">>), Attr("align", <<"right">>)>>,
                 <<Text(LblTotalHouses)>>), WS,
            FooterTd(Footer[0]), WS,
            FooterTd(Footer[1]), WS,
            Elem("td", <<Attr("colspan", <<"3">>), Attr("align", <<"right">>)>>,
                 <<Text(LblTotalPersons)>>), WS,
            FooterTd(Footer[2]), WS,
            FooterTd(Footer[3]), WS,
            Elem("td", <<Attr("colspan", <<"2">>)>>, <<>>),
            Elem("td", <<>>, <<>>), WS>>),
        WS>>)

HtmlHead ==
    Elem("head", <<>>,
      <<Elem("meta", <<Attr("charset", <<"UTF-8">>)>>, <<>>),
        Elem("title", <<>>, <<Text(<<"1", "8", "6", "1", " ", "C", "e", "n", "s", "u", "s">>)>>), WS,
        Elem("style", <<>>, <<Text(<<"c", "s", "s">>)>>), WS>>)

HtmlPage(body) ==
    Document(<<Doctype, WS,
               Elem("html", <<Attr("lang", <<"en">>)>>,
                    <<WS, HtmlHead, WS, Elem("body", <<>>, body), WS>>)>>)

\* pageTmpl of the template package, executed on data = [Header, Rows, Footer]
pageTmpl(data) ==
    HtmlPage(
      <<WS,
        Elem("table", <<Attr("border", <<"1">>), Attr("cellspacing", <<"0">>),
                        Attr("cellpadding", <<"0">>)>>,
          <<WS,
            Elem("colgroup", <<>>,
                 <<Elem("col", <<Attr("style", <<"width:8.33%">>), Attr("span", <<"7">>)>>, <<>>)>>), WS,
            Elem("thead", <<>>,
              <<WS, BoundariesTr, WS,
                HeaderTr(<<LblParish, LblCity, LblWard, LblBorough, LblTown, LblVillage,
                           LblDistrict>>, data.Header), WS,
                Elem("tr", <<>>,
                  <<WS, ColTh("small-header"), WS, ColTh("small-header"), WS,
                    ColTh("small-header"), WS, ColTh("smaller-header"), WS,
                    ColTh("smaller-header"), WS, ColTh("smaller-header"), WS,
                    ColTh("smaller-header"), WS, ColTh("small-header"), WS,
                    ColTh("small-header"), WS, ColTh("small-header"), WS,
                    ColTh("small-header"), WS,
                    Elem("th", <<Attr("class", <<"small-header">>)>>, <<>>), WS>>),
                WS>>), WS,
            Tbody(data.Rows), WS,
            Tfoot(data.Footer), WS>>),
        WS>>)

\* <th ...>No.<br>Schedule</th> and <th ...>Road, Street, &amp;c;<br>&amp; No.
\* or Name of House</th>: the two column labels of the monolithic template
\* that hold a br
BrTh(class, before, after) ==
    Elem("th", <<Attr("class", <<class>>), Attr("rowspan", <<"2">>)>>,
         <<Text(before), Elem("br", <<>>, <<>>), Text(after)>>)

\* pageTmpl of the monolithic program
pageTmplMono(data) ==
    HtmlPage(
      <<WS,
        Elem("table", <<Attr("border", <<"1">>), Attr("cellspacing", <<"0">>),
                        Attr("cellpadding", <<"0">>)>>,
          <<WS,
            Elem("colgroup", <<>>,
                 <<Elem("col", <<Attr("style", <<"width:8.33%">>), Attr("span", <<"7">>)>>, <<>>)>>), WS,
            Elem("thead", <<>>,
              <<WS, BoundariesTr, WS,
                HeaderTr(<<LblParish, LblCity, LblWard, LblBorough, LblTown, LblHamlet,
                           LblDistrict>>, data.Header), WS>>),
            WS>>),
        WS,
        Elem("table", <<>>,
          <<WS,
            Elem("colgroup", <<>>,
                 [k \in 1..FieldCount |-> Elem("col", <<Attr("style", <<"width">>)>>, <<>>)]), WS,
            Elem("thead", <<>>,
              <<WS,
                Elem("tr", <<>>,
                  <<WS, BrTh("smaller-header", LblNo, LblSchedule), WS,
                    BrTh("small-header", LblRoad, LblHouse), WS,
                    ColTh("smaller-header"), WS, ColTh("small-header"), WS,
                    ColTh(""), ColTh(""), WS, ColTh(""), WS, ColTh(""), WS,
                    ColTh(""), WS, ColTh("smaller-header"), WS>>), WS,
                Elem("tr", <<>>,
                  <<WS, ColTh("smaller-header"), ColTh("smaller-header"), WS,
                    ColTh("smaller-header"), ColTh("smaller-header"), WS>>),
                WS>>), WS,
            Tbody(data.Rows), WS,
            Tfoot(data.Footer), WS>>),
        WS>>)

(***************************************************************************)
(* The inputs: field values, pages                                          *)
(***************************************************************************)

MaxLen == 2

Alphabet == {"a", " ", "&"}

\* every string over Alphabet of at most MaxLen characters
Strs == UNION {[1..n -> Alphabet] : n \in 0..MaxLen}

Specials ==
    { <<"<">>, <<">">>, <<"\"">>, <<"'">>, <<"+">>,
      <<"&", "l", "t", ";">>, <<"&", "#", "3", "9", ";">>,
      <<"<", "b", ">">>, <<"a", "\r", "b">>, <<"\n", "a">>,
      <<"O", "'", "B", " ", "&", " ", "S", " ", "<", "L", ">">> }

Vals == Strs \cup Specials

Digits == <<"0", "1", "2", "3", "4", "5", "6", "7", "8", "9">>
Num(n) == <<Digits[(n \div 10) + 1], Digits[(n % 10) + 1]>>

\* a value that names its own position
HeadTag(i) == <<"h">> \o Num(i)
CellTag(r, c) == <<"r">> \o Num(r) \o <<"c">> \o Num(c)
FootTag(k) == <<"f">> \o Num(k)

Page(h, r, f) == [Header |-> h, Rows |-> r, Footer |-> f]

BlankPage == Page(BlankHead, BlankRows, BlankFoot)

\* every field holds v
Uniform(v) ==
    Page([i \in 0..HeadCount - 1 |-> v],
         [r \in 0..RowCount - 1 |-> [Col |-> [c \in 0..FieldCount - 1 |-> v]]],
         [k \in 0..FootCount - 1 |-> v])

\* the fields of hm, bm, fm hold their position's tag, the others are empty
Tagged(hm, bm, fm) ==
    Page([i \in 0..HeadCount - 1 |-> IF i \in hm THEN HeadTag(i) ELSE <<>>],
         [r \in 0..RowCount - 1 |->
            [Col |-> [c \in 0..FieldCount - 1 |-> IF <<r, c>> \in bm THEN CellTag(r, c) ELSE <<>>]]],
         [k \in 0..FootCount - 1 |-> IF k \in fm THEN FootTag(k) ELSE <<>>])

AllCells == (0..RowCount - 1) \X (0..FieldCount - 1)

BodyMasks ==
    { AllCells, {},
      {rc \in AllCells : (rc[1] + rc[2]) % 2 = 0},
      {rc \in AllCells : rc[2] \in {1, 4, 10}},
      {<<0, 0>>, <<24, 11>>},
      {rc \in AllCells : rc[1] = 24} }

\* a page whose first header value is one space and whose other fields
\* hold their position's tag
SpacedHead ==
    [Tagged(0..HeadCount - 1, {<<0, 0>>, <<24, 11>>}, 0..FootCount - 1)
        EXCEPT !.Header[0] = <<" ">>]

Pages ==
    {Uniform(v) : v \in Vals} \cup {SpacedHead}
      \cup {Tagged(hm, {<<0, 0>>, <<24, 11>>}, 0..FootCount - 1) : hm \in SUBSET (0..HeadCount - 1)}
      \cup {Tagged(0..HeadCount - 1, {<<0, 0>>, <<24, 11>>}, fm) : fm \in SUBSET (0..FootCount - 1)}
      \cup {Tagged(0..HeadCount - 1, bm, 0..FootCount - 1) : bm \in BodyMasks}

(***************************************************************************)
(* The inputs: documents the encoder did not write.  A description m says   *)
(* what the document holds: m.ths, the kinds of its th cells in document    *)
(* order; m.nrows rows of m.ntd cells in its tbody (m.junk: with other      *)
(* children between the cells); m.tds, the kinds of the td cells of its     *)
(* tfoot.  Every text names its position.                                   *)
(***************************************************************************)

MaxExtra == 1

BrKinds == <<"value", "brlast", "brelem", "twobr">>
NoBrKinds == <<"label", "nested">>

ThValue(k) == <<"v">> \o Num(k)

Br == Elem("br", <<>>, <<>>)

ForeignTh(kind, k) ==
    CASE kind = "label"  -> Elem("th", <<>>, <<Text(<<"l">> \o Num(k))>>)
      [] kind = "nested" -> Elem("th", <<>>, <<Elem("span", <<>>, <<Br, Text(<<"n">> \o Num(k))>>)>>)
      [] kind = "value"  -> Elem("th", <<>>, <<Text(<<"l">> \o Num(k)), Br,
                                              Text(<<" ">> \o ThValue(k) \o <<"\n">>)>>)
      [] kind = "brlast" -> Elem("th", <<>>, <<Text(<<"l">> \o Num(k)), Br>>)
      [] kind = "brelem" -> Elem("th", <<>>, <<Br, Elem("b", <<>>, <<Text(ThValue(k))>>),
                                              Text(<<"x">> \o Num(k))>>)
      [] kind = "twobr"  -> Elem("th", <<>>, <<Text(<<"l">> \o Num(k)), Br, Text(ThValue(k)),
                                              Br, Text(<<"x">> \o Num(k))>>)

\* <table><tfoot><tr> cell </tr></tfoot></table>
InnerTable(cell) ==
    Elem("table", <<>>, <<Elem("tfoot", <<>>, <<Elem("tr", <<>>, <<cell>>)>>)>>)

ForeignTd(kind, k) ==
    CASE kind = "val"   -> Elem("td", <<>>, <<Text(<<" ">> \o FootTag(k))>>)
      [] kind = "align" -> Elem("td", <<Attr("align", <<"right">>)>>, <<Text(FootTag(k))>>)
      [] kind = "lab"   -> Elem("td", <<Attr("colspan", <<"2">>)>>, <<Text(<<"L">> \o Num(k))>>)
      [] kind = "LAB"   -> Elem("TD", <<Attr("align", <<"right">>), Attr("COLSPAN", <<"2">>)>>,
                                <<Text(<<"L">> \o Num(k))>>)
      [] kind = "nest"  -> Elem("td", <<Attr("colspan", <<"2">>)>>,
                                <<Text(<<"L">> \o Num(k)), InnerTable(Elem("td", <<>>, <<Text(FootTag(k))>>))>>)
      [] kind = "far"   -> Elem("th", <<>>,
                                <<InnerTable(Elem("td", <<>>, <<Text(FootTag(k))>>))>>)

ForeignTr(m, r) ==
    Elem("tr", <<>>,
         Concat([c \in 1..m.ntd |->
                   (IF m.junk THEN <<WS, Elem("th", <<>>, <<Text(<<"j">>)>>)>> ELSE <<>>)
                     \o <<Elem(IF m.junk /\ c % 2 = 0 THEN "TD" ELSE "td", <<>>,
                               <<Text(CellTag(r, c - 1))>>)>>]))

Made(ths, nrows, ntd, junk, tds) ==
    [ths |-> ths, nrows |-> nrows, ntd |-> ntd, junk |-> junk, tds |-> tds]

\* the description of a document that holds no table at all
NoTable == Made(<<>>, 0, 0, TRUE, <<>>)

\* <p>x<br>y</p><div>z</div>: no th, no tr, no td
BareDoc ==
    Document(
      <<Elem("html", <<>>,
          <<Elem("head", <<>>, <<>>),
            Elem("body", <<>>,
              <<Elem("p", <<>>, <<Text(<<"x">>), Br, Text(<<"y">>)>>),
                Elem("div", <<>>, <<Text(<<"z">>)>>)>>)>>)>>)

\* the description of a document with a table inside a body cell
NestedRows == Made(<<>>, 2, 2, TRUE, <<>>)

\* a thead row and a tfoot row of td cells, and one tbody row whose second
\* cell holds x and a table of one row of one cell
NestedDoc ==
    Document(
      <<Elem("html", <<>>,
          <<Elem("head", <<>>, <<>>),
            Elem("body", <<>>,
              <<Elem("table", <<>>,
                  <<Elem("thead", <<>>,
                      <<Elem("tr", <<>>, <<Elem("td", <<>>, <<Text(<<"h", "d">>)>>)>>)>>),
                    Elem("tbody", <<>>,
                      <<Elem("tr", <<>>,
                          <<Elem("td", <<>>, <<Text(<<"c", "0">>)>>),
                            Elem("td", <<>>,
                              <<Text(<<"x">>),
                                Elem("table", <<>>,
                                  <<Elem("tbody", <<>>,
                                      <<Elem("tr", <<>>,
                                          <<Elem("td", <<>>, <<Text(<<"i", "n">>)>>)>>)>>)>>)>>)>>)>>),
                    Elem("tfoot", <<>>,
                      <<Elem("tr", <<>>,
                          <<Elem("td", <<Attr("colspan", <<"2">>)>>,
                                 <<Text(<<"L">>)>>)>>)>>)>>)>>)>>)>>)

ForeignDoc(m) ==
    IF m = NoTable THEN BareDoc ELSE
    IF m = NestedRows THEN NestedDoc ELSE
    Document(
      <<Elem("html", <<>>,
          <<Elem("head", <<>>, <<>>),
            Elem("body", <<>>,
              <<Elem("table", <<>>,
                  <<Elem("thead", <<>>,
                      <<Elem("tr", <<>>,
                             Strict([k \in 1..Len(m.ths) |-> ForeignTh(m.ths[k], k)])
                               \o <<Elem("td", <<>>, <<Text(<<"h", "d">>)>>)>>)>>),
                    Elem("tbody", <<>>,
                         Concat([r \in 1..m.nrows |-> <<WS, ForeignTr(m, r - 1)>>])),
                    Elem("tfoot", <<>>,
                      <<Elem("tr", <<>>,
                             Strict([k \in 1..Len(m.tds) |-> ForeignTd(m.tds[k], k)]))>>)>>)>>)>>)>>)

NotMade == Made(<<>>, 0, 0, FALSE, <<>>)

\* th cells: each with or without a br child, the kind following the position
HeadDocs ==
    {Made([k \in 1..HeadCount + MaxExtra |->
             IF k \in S THEN BrKinds[(k % 4) + 1] ELSE NoBrKinds[(k % 2) + 1]],
          0, 0, FALSE, <<>>) : S \in SUBSET (1..HeadCount + MaxExtra)}

BodyDocs ==
    {Made(<<>>, nrows, ntd, junk, <<>>) :
        nrows \in {0, 1} \cup (RowCount - 1..RowCount + MaxExtra),
        ntd \in {0, 1} \cup (FieldCount - 1..FieldCount + MaxExtra),
        junk \in BOOLEAN}

\* tfoot cells: each with or without colspan, the kind following the position
FootDocs ==
    {Made(<<>>, 0, 0, FALSE,
          [k \in 1..FootCount + MaxExtra + 1 |->
             IF k \in S THEN (IF k % 2 = 0 THEN "val" ELSE "align")
             ELSE (IF k % 3 = 0 THEN "LAB" ELSE "lab")]) :
        S \in SUBSET (1..FootCount + MaxExtra + 1)}

\* more of everything than the decoder has slots for
OverDocs ==
    {Made([k \in 1..HeadCount + MaxExtra |-> BrKinds[(k % 4) + 1]],
          RowCount + MaxExtra, FieldCount + MaxExtra, junk,
          [k \in 1..FootCount + MaxExtra + 1 |-> IF k = 1 THEN "lab" ELSE "val"]) :
        junk \in BOOLEAN}

\* tfoot cells with an inner table: a td without colspan inside a td with
\* colspan, or inside a th
NestDocs ==
    {Made(<<>>, 0, 0, FALSE,
          [k \in 1..FootCount + 1 |->
             IF k \in S THEN "nest" ELSE (IF k % 2 = 0 THEN "far" ELSE "val")]) :
        S \in SUBSET (1..FootCount + 1)}

ForeignDocs == HeadDocs \cup BodyDocs \cup FootDocs \cup OverDocs \cup NestDocs \cup {NestedRows}

(***************************************************************************)
(* The state: the page in memory (model.header, model.rows, model.footer),  *)
(* the files, and the result of the last decode                             *)
(***************************************************************************)

VARIABLES header, rows, footer, disk, made, res, op, ui

vars == <<header, rows, footer, disk, made, res, op, ui>>

Paths == {"census.html", "other.html"}

NoResult == [head |-> BlankHead, rows |-> BlankRows, foot |-> BlankFoot, err |-> "none"]

Init ==
    /\ \E pg \in Pages :
          /\ header = pg.Header
          /\ rows = pg.Rows
          /\ footer = pg.Footer
    /\ disk = [p \in Paths |-> NoFile]
    /\ made = NotMade
    /\ res = NoResult
    /\ op = [name |-> "init", path |-> ""]
    /\ ui = [mode |-> "none"]

\* template.WriteHTML(header, rows[:], footer, filename)
WriteHTML(filename) ==
    /\ op.name = "init"
    /\ disk' = [disk EXCEPT ![filename] =
                  pageTmpl([Header |-> header, Rows |-> rows, Footer |-> footer])]
    /\ op' = [name |-> "WriteHTML", path |-> filename]
    /\ UNCHANGED <<header, rows, footer, made, res, ui>>

\* the monolithic writeHTML(header, rows[:], footer, filename)
writeHTML(filename) ==
    /\ op.name = "init"
    /\ disk' = [disk EXCEPT ![filename] =
                  pageTmplMono([Header |-> header, Rows |-> rows, Footer |-> footer])]
    /\ op' = [name |-> "writeHTML", path |-> filename]
    /\ UNCHANGED <<header, rows, footer, made, res, ui>>

\* a call of parser.ParseHTML(path)
CallParseHTML(path) ==
    /\ op.name \in {"init", "WriteHTML", "writeHTML", "placed", "broken"}
    /\ res' = ParseHTML(disk[path])
    /\ op' = [name |-> "ParseHTML", path |-> path, after |-> op.name]
    /\ UNCHANGED <<header, rows, footer, disk, made, ui>>

\* a call of the monolithic parseHTML(path)
CallparseHTML(path) ==
    /\ op.name \in {"init", "WriteHTML", "writeHTML", "placed", "broken"}
    /\ res' = parseHTML(disk[path])
    /\ op' = [name |-> "parseHTML", path |-> path, after |-> op.name]
    /\ UNCHANGED <<header, rows, footer, disk, made, ui>>

\* another program writes the document m describes to other.html.  What a
\* decode returns depends on the file alone, so this is modelled beside the
\* blank page only.
PlaceFile(m) ==
    /\ op.name = "init"
    /\ header = BlankHead /\ rows = BlankRows /\ footer = BlankFoot
    /\ disk' = [disk EXCEPT !["other.html"] = ForeignDoc(m)]
    /\ made' = m
    /\ op' = [name |-> "placed", path |-> "other.html"]
    /\ UNCHANGED <<header, rows, footer, res, ui>>

\* the file at other.html fails to read after the markup of the document m
\* describes
PlaceBroken(m) ==
    /\ op.name = "init"
    /\ header = BlankHead /\ rows = BlankRows /\ footer = BlankFoot
    /\ disk' = [disk EXCEPT !["other.html"] = ReadFails(ForeignDoc(m))]
    /\ made' = m
    /\ op' = [name |-> "broken", path |-> "other.html"]
    /\ UNCHANGED <<header, rows, footer, res, ui>>

\* the page a decode returned is written again, by the encoder that wrote
\* the document it was decoded from: the save that follows a reopen.  The
\* document goes to the other path, which leaves the first one to compare.
Resave ==
    /\ op.name \in {"ParseHTML", "parseHTML"}
    /\ op.path = "census.html"
    /\ <<op.after, op.name>> \in {<<"WriteHTML", "ParseHTML">>, <<"writeHTML", "parseHTML">>}
    /\ res.err = "nil"
    /\ \E page \in {[Header |-> res.head, Rows |-> res.rows, Footer |-> res.foot]} :
          disk' = [disk EXCEPT !["other.html"] =
                     IF op.after = "WriteHTML" THEN pageTmpl(page) ELSE pageTmplMono(page)]
    /\ op' = [name |-> "Resave", path |-> "other.html", pair |-> <<op.after, op.name>>,
              first |-> res]
    /\ UNCHANGED <<header, rows, footer, made, res, ui>>

\* the document written again is decoded by the decoder of the same pair
Reopen ==
    /\ op.name = "Resave"
    /\ res' = IF op.pair[2] = "ParseHTML" THEN ParseHTML(disk[op.path])
              ELSE parseHTML(disk[op.path])
    /\ op' = [op EXCEPT !.name = "Reopen"]
    /\ UNCHANGED <<header, rows, footer, disk, made, ui>>

\* a file that was created or truncated and then not written
EmptyFile == Document(<<>>)

\* a variant that opens the destination for writing before it renders
WriteHTMLOutcome_TruncatesFirst(w, page, old, ok) ==
    IF ~ok THEN [file |-> EmptyFile, err |-> "render"]
    ELSE [file |-> IF w = "WriteHTML" THEN pageTmpl(page) ELSE pageTmplMono(page),
          err |-> "nil"]

\* WriteHTML (w = "WriteHTML") and the monolithic writeHTML on a destination
\* that holds old: t.Execute(&buf, data) renders into memory, ok saying
\* whether it returns no error; on an error the function returns it, and
\* only otherwise does os.WriteFile(filename, buf.Bytes(), 0o644) replace
\* the file
WriteHTMLOutcome(w, page, old, ok) ==
    IF ~ok THEN [file |-> old, err |-> "render"]
    ELSE [file |-> IF w = "WriteHTML" THEN pageTmpl(page) ELSE pageTmplMono(page),
          err |-> "nil"]

\* the encoder w is called with the page in memory on other.html, where a
\* document of another program may be
Overwrite(w, ok) ==
    /\ op.name \in {"init", "placed"}
    /\ \E out \in {WriteHTMLOutcome(w, [Header |-> header, Rows |-> rows, Footer |-> footer],
                                    disk["other.html"], ok)} :
          /\ disk' = [disk EXCEPT !["other.html"] = out.file]
          /\ op' = [name |-> "Overwrite", path |-> "other.html", by |-> w,
                    renders |-> ok, err |-> out.err]
    /\ UNCHANGED <<header, rows, footer, made, res, ui>>

Next ==
    \/ \E m \in ForeignDocs : PlaceFile(m)
    \/ \E m \in OverDocs : PlaceBroken(m)
    \/ WriteHTML("census.html")
    \/ writeHTML("census.html")
    \/ \E path \in Paths : CallParseHTML(path)
    \/ \E path \in Paths : CallparseHTML(path)
    \/ Resave
    \/ Reopen
    \/ \E w \in {"WriteHTML", "writeHTML"}, ok \in BOOLEAN : Overwrite(w, ok)

Spec == Init /\ [][Next]_vars

(***************************************************************************)
(* What the claims speak of                                                 *)
(***************************************************************************)

\* the last step decoded census.html with parser, after writer wrote it
Decoded(writer, parser) ==
    /\ op.name = parser
    /\ op.path = "census.html"
    /\ op.after = writer

\* the last step decoded the document that PlaceFile put at other.html
DecodedForeign ==
    /\ op.name \in {"ParseHTML", "parseHTML"}
    /\ op.path = "other.html"
    /\ op.after = "placed"

\* the two encoder/decoder pairs of the repository
Pairs == {<<"WriteHTML", "ParseHTML">>, <<"writeHTML", "parseHTML">>}

DecodedByPair == \E pr \in Pairs : Decoded(pr[1], pr[2])

\* every one of the 311 fields of the page in memory satisfies P
AllFields(P(_)) ==
    /\ \A i \in 0..HeadCount - 1 : P(header[i])
    /\ \A r \in 0..RowCount - 1 : \A c \in 0..FieldCount - 1 : P(rows[r].Col[c])
    /\ \A k \in 0..FootCount - 1 : P(footer[k])

NonEmpty(v) == v # <<>>

\* no white space at either end, no carriage return
Plain(v) ==
    /\ v # <<>> => (v[1] \notin WhiteSpace /\ v[Len(v)] \notin WhiteSpace)
    /\ \A i \in 1..Len(v) : v[i] # "\r"

PlainNonEmpty(v) == NonEmpty(v) /\ Plain(v)

SamePage ==
    /\ res.err = "nil"
    /\ res.head = header
    /\ res.rows = rows
    /\ res.foot = footer

\* the page in memory is blank
BlankInMemory == header = BlankHead /\ rows = BlankRows /\ footer = BlankFoot

\* census.html as the last write left it
Written == disk["census.html"]

WasWritten == Written # NoFile

\* the elements named tag among kids, in order
ElemsOf(kids, tag) == SelectSeq(kids, LAMBDA k : k.type = "element" /\ k.data = tag)

\* the tbody elements of the tables of the body of the markup f
Tbodies(f) ==
    LET html == ElemsOf(f.kids, "html")[1]
        body == ElemsOf(html.kids, "body")[1]
        tables == ElemsOf(body.kids, "table")
    IN  Concat([t \in 1..Len(tables) |-> ElemsOf(tables[t].kids, "tbody")])

\* the tr elements of the first tbody of f, and the td elements of a tr
TrsOf(f) == ElemsOf(Tbodies(f)[1].kids, "tr")
TdsOf(tr) == ElemsOf(tr.kids, "td")

\* the td written for row r, column c
WrittenTd(r, c) == TdsOf(TrsOf(Written)[r + 1])[c + 1]

\* what a description of a document says its decoding is
WithBr(m) == SelectSeq([k \in 1..Len(m.ths) |-> k],
                       LAMBDA k : m.ths[k] \in {"value", "brlast", "brelem", "twobr"})

ValueTds(m) ==
    SelectSeq([k \in 1..Len(m.tds) |-> k], LAMBDA k : m.tds[k] \in {"val", "align", "far"})

ExpectedHead(m) ==
    [idx \in 0..HeadCount - 1 |->
        IF idx >= Len(WithBr(m)) THEN <<>>
        ELSE IF m.ths[WithBr(m)[idx + 1]] = "brlast" THEN <<>>
        ELSE ThValue(WithBr(m)[idx + 1])]

ExpectedRows(m) ==
    [r \in 0..RowCount - 1 |->
        [Col |-> [c \in 0..FieldCount - 1 |->
                    IF r < m.nrows /\ c < m.ntd THEN CellTag(r, c) ELSE <<>>]]]

ExpectedFoot(m) ==
    [k \in 0..FootCount - 1 |->
        IF k < Len(ValueTds(m)) THEN FootTag(ValueTds(m)[k + 1]) ELSE <<>>]

(***************************************************************************)
(* The claims                                                               *)
(***************************************************************************)

\* C1 as stated: for every page whose 311 fields are all non-empty strings,
\* decoding the document template.WriteHTML wrote returns the same string in
\* every field.
C1_RoundTripNonEmpty ==
    (AllFields(NonEmpty) /\ Decoded("WriteHTML", "ParseHTML")) => SamePage

\* C1 amended: for every page whose 311 fields are all non-empty strings
\* that neither begin nor end with white space and hold no carriage return
\* (among them strings holding & < > " ' +), decoding the document the
\* encoder wrote returns the same string in every field; so for either
\* encoder and either decoder.
C1_RoundTripPlain ==
    (/\ AllFields(PlainNonEmpty)
     /\ \E w \in {"WriteHTML", "writeHTML"}, d \in {"ParseHTML", "parseHTML"} : Decoded(w, d))
        => SamePage

\* C1 witness: a full page of a value with the special characters came back
C1_Witness ==
    /\ Decoded("WriteHTML", "ParseHTML")
    /\ AllFields(LAMBDA v : v = <<"O", "'", "B", " ", "&", " ", "S", " ", "<", "L", ">">>)
    /\ res.rows[24].Col[11] = <<"O", "'", "B", " ", "&", " ", "S", " ", "<", "L", ">">>

\* C2 as stated: a page of 311 empty fields, written and decoded by either
\* encoder/decoder pair of the repository, comes back as a page of 311 empty
\* fields.
C2_BlankRoundTrip ==
    (BlankInMemory /\ DecodedByPair)
        => (/\ res.err = "nil"
            /\ res.head = BlankHead
            /\ res.rows = BlankRows
            /\ res.foot = BlankFoot)

\* C3 as stated, for values the decoder does not trim: whichever header
\* slots are empty, the decoded header slot i of the written document is the
\* original header slot i, for every i in 0..6.
C3_HeaderPositions ==
    (AllFields(Plain) /\ Decoded("WriteHTML", "ParseHTML"))
        => \A i \in 0..HeadCount - 1 : res.head[i] = header[i]

\* C4 as stated: for every page, decoding the written document returns at
\* every row and column and at every footer index the original value of
\* that position.
C4_BodyFooterValues ==
    Decoded("WriteHTML", "ParseHTML")
        => (/\ \A r \in 0..RowCount - 1 : \A c \in 0..FieldCount - 1 :
                  res.rows[r].Col[c] = rows[r].Col[c]
            /\ \A k \in 0..FootCount - 1 : res.foot[k] = footer[k])

\* C4 amended: for every page whose body and footer values are empty or
\* neither begin nor end with white space and hold no carriage return, in
\* any mix of empty and non-empty, decoding the written document returns at
\* every row and column and at every footer index the original value of
\* that position; so for either encoder and either decoder.
C4_BodyFooterPositions ==
    (/\ \A r \in 0..RowCount - 1 : \A c \in 0..FieldCount - 1 : Plain(rows[r].Col[c])
     /\ \A k \in 0..FootCount - 1 : Plain(footer[k])
     /\ \E w \in {"WriteHTML", "writeHTML"}, d \in {"ParseHTML", "parseHTML"} : Decoded(w, d))
        => (/\ \A r \in 0..RowCount - 1 : \A c \in 0..FieldCount - 1 :
                  res.rows[r].Col[c] = rows[r].Col[c]
            /\ \A k \in 0..FootCount - 1 : res.foot[k] = footer[k])

\* C4 witness: a page with empty cells before and after a non-empty one and
\* an empty footer value before a non-empty one came back
C4_Witness ==
    /\ Decoded("WriteHTML", "ParseHTML")
    /\ rows[0].Col[3] = <<>> /\ rows[0].Col[4] # <<>> /\ rows[0].Col[5] = <<>>
    /\ res.rows[0].Col[4] = rows[0].Col[4]
    /\ rows[23].Col[4] # <<>> /\ rows[24].Col[11] = <<>>
    /\ footer[0] # <<>>

\* C5: in the written document the td of row r, column c of a non-empty
\* value holds one element: PersonRef with detlnk="dpR{r+1}C{c+1}" when
\* c = 4, PlaceRef with detlnk="dwR{r+1}C{c+1}" when c is 1 or 10, Mark with
\* ref="R{r+1}C{c+1}" for every other c; and that element holds the text.
C5_ColumnMarkup ==
    WasWritten =>
        \A r \in 0..RowCount - 1 : \A c \in 0..FieldCount - 1 :
            rows[r].Col[c] # <<>> =>
                LET kids == WrittenTd(r, c).kids
                IN  /\ Len(kids) = 1
                    /\ kids[1].type = "element"
                    /\ kids[1].data = (IF c = 4 THEN "PersonRef"
                                       ELSE IF c \in {1, 10} THEN "PlaceRef" ELSE "Mark")
                    /\ kids[1].attr =
                          (IF c = 4 THEN <<Attr("detlnk", <<"dpR", r + 1, "C", c + 1>>)>>
                           ELSE IF c \in {1, 10} THEN <<Attr("detlnk", <<"dwR", r + 1, "C", c + 1>>)>>
                           ELSE <<Attr("ref", <<"R", r + 1, "C", c + 1>>)>>)
                    /\ Len(kids[1].kids) = 1
                    /\ kids[1].kids[1].type = "text"

\* C5 witness: a page with values in rows 0 and 24 and columns 0, 1, 4, 10,
\* 11 was written
C5_Witness ==
    /\ WasWritten
    /\ \A r \in {0, 24} : \A c \in {0, 1, 4, 10, 11} : rows[r].Col[c] # <<>>
    /\ WrittenTd(24, 10).kids[1].data = "PlaceRef"

\* C6: in the written document the td of an empty body field has no
\* children, and the td is there: every row keeps its FieldCount cells.
C6_EmptyCell ==
    WasWritten =>
        \A r \in 0..RowCount - 1 :
            /\ Len(TdsOf(TrsOf(Written)[r + 1])) = FieldCount
            /\ \A c \in 0..FieldCount - 1 :
                  rows[r].Col[c] = <<>> => WrittenTd(r, c).kids = <<>>

\* C6 witness: a row with an empty field between two values was written
C6_Witness ==
    /\ WasWritten
    /\ rows[24].Col[2] = <<>> /\ rows[24].Col[1] # <<>> /\ rows[24].Col[4] # <<>>
    /\ WrittenTd(24, 2).kids = <<>>
    /\ WrittenTd(24, 4).kids # <<>>

\* C7: every written document has one tbody, with exactly RowCount tr rows,
\* each with exactly FieldCount td cells and no other element.
C7_TableShape ==
    WasWritten =>
        /\ Len(Tbodies(Written)) = 1
        /\ Len(TrsOf(Written)) = RowCount
        /\ \A r \in 1..RowCount :
              /\ Len(TdsOf(TrsOf(Written)[r])) = FieldCount
              /\ Len(TrsOf(Written)[r].kids) = FieldCount

\* C7 witness: a page with blank rows and with rows of some empty fields was
\* written
C7_Witness ==
    /\ WasWritten
    /\ rows[1] = BlankRow
    /\ rows[0].Col[0] # <<>> /\ rows[0].Col[1] = <<>>
    /\ Len(TrsOf(Written)) = RowCount

\* C8: decoding a document with more tbody rows than RowCount, more td in a
\* row than FieldCount, more th with br than HeadCount or more tfoot cells
\* without colspan than FootCount returns no error and fills the slots from
\* the first RowCount rows, the first FieldCount cells of each, the first
\* HeadCount such th and the first FootCount such cells.
C8_Truncation ==
    DecodedForeign =>
        /\ res.err = "nil"
        /\ (made.nrows > RowCount \/ made.ntd > FieldCount) => res.rows = ExpectedRows(made)
        /\ Len(WithBr(made)) > HeadCount => res.head = ExpectedHead(made)
        /\ Len(ValueTds(made)) > FootCount => res.foot = ExpectedFoot(made)

\* C8 witness: a document with more of all four was decoded
C8_Witness ==
    /\ DecodedForeign
    /\ made.nrows > RowCount /\ made.ntd > FieldCount
    /\ Len(WithBr(made)) > HeadCount /\ Len(ValueTds(made)) > FootCount
    /\ res.rows[24].Col[11] = CellTag(24, 11)
    /\ res.foot[3] = FootTag(5)

\* C9: the footer slots are the texts of the tfoot td cells without colspan,
\* in document order; the text of a tfoot td with colspan is in no slot, also
\* when that td is the first of the tfoot.
C9_ColspanExcluded ==
    /\ DecodedForeign =>
          /\ res.foot = ExpectedFoot(made)
          /\ \A k \in 0..FootCount - 1 : \A j \in 1..Len(made.tds) :
                made.tds[j] \in {"lab", "LAB"} => res.foot[k] # <<"L">> \o Num(j)
    /\ (op.name \in {"ParseHTML", "parseHTML"} /\ op.path = "census.html") =>
          \A k \in 0..FootCount - 1 : res.foot[k] \notin {LblTotalHouses, LblTotalPersons}

\* C9 witness: a tfoot whose first td has colspan, followed by cells without,
\* was decoded
C9_Witness ==
    /\ DecodedForeign
    /\ made.tds # <<>>
    /\ made.tds[1] = "lab" /\ made.tds[3] = "LAB" /\ made.tds[2] = "val"
    /\ res.foot[0] = FootTag(2)

\* C10: a th without a br among its children takes no header slot; the k-th
\* slot is the trimmed text of the node that follows the first br child of
\* the k-th th that has one.
C10_BrGating ==
    DecodedForeign => res.head = ExpectedHead(made)

\* C10 witness: th cells with text and no br, before and between th cells
\* with br, were decoded
C10_Witness ==
    /\ DecodedForeign
    /\ Len(made.ths) >= 5
    /\ made.ths[1] = "nested" /\ made.ths[2] = "label" /\ made.ths[3] = "twobr"
    /\ made.ths[4] = "label" /\ made.ths[5] = "brlast"
    /\ res.head[0] = ThValue(3) /\ res.head[1] = <<>>

\* the last step was a decode of the file at op.path
JustDecoded == op.name \in {"ParseHTML", "parseHTML"}

ResultBlank == res.head = BlankHead /\ res.rows = BlankRows /\ res.foot = BlankFoot

\* C11: a decode of a path that cannot be opened or whose read fails returns
\* an error, and every decode that returns an error returns a blank header,
\* blank rows and a blank footer.
C11_FailureAllOrNothing ==
    JustDecoded =>
        /\ disk[op.path] = NoFile => res.err = "open"
        /\ (disk[op.path] # NoFile /\ disk[op.path].type = "readfails") => res.err = "parse"
        /\ res.err # "nil" => ResultBlank

\* C11 witness: a file that held headers, rows and footer values before its
\* read failed was decoded
C11_Witness ==
    /\ JustDecoded
    /\ op.after = "broken"
    /\ disk[op.path].type = "readfails"
    /\ ParseHTML(disk[op.path].read).rows[24].Col[11] # <<>>
    /\ res.err = "parse" /\ ResultBlank

\* C12: every decode of a document returns no error, and every header slot
\* past the last th with a br, every row past the last tbody row, every
\* column past the last td of its row and every footer slot past the last
\* tfoot td without colspan is the empty string.
C12_MissingIsEmpty ==
    /\ (JustDecoded /\ disk[op.path] # NoFile /\ disk[op.path].type = "document")
          => res.err = "nil"
    /\ DecodedForeign =>
          /\ \A i \in 0..HeadCount - 1 : i >= Len(WithBr(made)) => res.head[i] = <<>>
          /\ \A r \in 0..RowCount - 1 : \A c \in 0..FieldCount - 1 :
                (r >= made.nrows \/ c >= made.ntd) => res.rows[r].Col[c] = <<>>
          /\ \A k \in 0..FootCount - 1 : k >= Len(ValueTds(made)) => res.foot[k] = <<>>

\* C12 witness: a document with three th with a br, or with one tbody row of
\* one td, or with no table at all was decoded
C12_Witness ==
    /\ DecodedForeign
    /\ res.err = "nil"
    /\ \/ Len(WithBr(made)) = 3 /\ res.head[2] # <<>> /\ res.head[3] = <<>>
       \/ made.nrows = 1 /\ made.ntd = 1 /\ res.rows[0].Col[0] # <<>>
            /\ res.rows[0].Col[1] = <<>> /\ res.rows[1] = BlankRow
       \/ made = NoTable /\ ResultBlank

(***************************************************************************)
(* The terminal program (package ui).  A ti.Model is its value, its cursor  *)
(* position and its focus; of the bubbles textinput the model has SetValue, *)
(* Value, Focus, Blur and what Update does with the keys the program        *)
(* forwards.  The file picker is what it reports: a message either selects  *)
(* a path or does not.                                                      *)
(***************************************************************************)

CharLimit == 64

censusYears == <<"1841", "1851", "1861", "1871", "1881", "1891", "1901", "1911", "1921">>

\* newInput: ti.New() with the placeholder and the limit
newInput == [value |-> <<>>, pos |-> 0, focus |-> FALSE]

Focus(in) == [in EXCEPT !.focus = TRUE]
Blur(in) == [in EXCEPT !.focus = FALSE]

\* what the input's sanitizer makes of a value it is given: every tab, line
\* feed and carriage return becomes one space
Sanitize(v) == [i \in 1..Len(v) |-> IF v[i] \in {"\t", "\n", "\r"} THEN " " ELSE v[i]]

\* ti.Model.SetValue: the value is cut at CharLimit; the cursor goes to the
\* end when it was at 0 of an empty input or is past the new end
SetValue(in, v) ==
    LET san == Sanitize(v)
        new == IF Len(san) > CharLimit THEN SubSeq(san, 1, CharLimit) ELSE san
    IN  [in EXCEPT !.value = new,
                   !.pos = IF (in.pos = 0 /\ in.value = <<>>) \/ in.pos > Len(new)
                           THEN Len(new) ELSE in.pos]

\* the start of what ctrl+w deletes: back over the white space before the
\* cursor, then back over the word before that (0-based, as in the source)
WordStart(in) ==
    LET IsSpace(j) == in.value[j + 1] \in WhiteSpace
        nonsp == {j \in 0..in.pos - 1 : ~IsSpace(j)}
        q == IF nonsp = {} THEN 0 ELSE MaxOf(nonsp)
        sp == {j \in 1..q : IsSpace(j)}
    IN  IF sp = {} THEN 0 ELSE MaxOf(sp) + 1

\* ti.Model.Update on a key message: nothing when the input is not focused
InputUpdate(in, k) ==
    IF ~in.focus THEN in
    ELSE CASE k.type = "KeyRunes" ->
                IF Len(in.value) < CharLimit
                THEN [in EXCEPT !.value = SubSeq(in.value, 1, in.pos) \o k.runes
                                            \o SubSeq(in.value, in.pos + 1, Len(in.value)),
                                !.pos = in.pos + Len(k.runes)]
                ELSE in
           [] k.type = "KeyCtrlH" ->
                IF in.pos > 0
                THEN [in EXCEPT !.value = SubSeq(in.value, 1, in.pos - 1)
                                            \o SubSeq(in.value, in.pos + 1, Len(in.value)),
                                !.pos = in.pos - 1]
                ELSE in
           [] k.type = "KeyCtrlW" ->
                IF in.pos > 0 /\ in.value # <<>>
                THEN [in EXCEPT !.value = SubSeq(in.value, 1, WordStart(in))
                                            \o SubSeq(in.value, in.pos + 1, Len(in.value)),
                                !.pos = WordStart(in)]
                ELSE in
           [] k.type = "KeyCtrlB" -> [in EXCEPT !.pos = IF in.pos > 0 THEN in.pos - 1 ELSE 0]
           [] k.type = "KeyCtrlF" ->
                [in EXCEPT !.pos = IF in.pos < Len(in.value) THEN in.pos + 1 ELSE in.pos]
           [] OTHER -> in

\* NewModel
NewModel ==
    [header |-> BlankHead, rows |-> BlankRows, footer |-> BlankFoot,
     year |-> "", yearIdx |-> 2,
     mode |-> "modeYearSelect", currRow |-> 0, currCol |-> 0,
     justWrote |-> FALSE, justRead |-> FALSE,
     headIn |-> [i \in 0..HeadCount - 1 |-> IF i = 0 THEN Focus(newInput) ELSE newInput],
     bodyIn |-> [i \in 0..FieldCount - 1 |-> newInput],
     footIn |-> [i \in 0..FootCount - 1 |-> newInput]]

\* F of the value of e, e being computed once
With(e, F(_)) == CHOOSE y \in {F(x) : x \in {e}} : TRUE

\* a variant of commitCurrent that also stores the census year in the last
\* header slot
commitCurrent_StampsYear(m) ==
    With(m, LAMBDA md :
      CASE md.mode = "modeHeader" ->
             [md EXCEPT !.header = [i \in 0..HeadCount - 1 |->
                                      IF i = HeadCount - 1 THEN <<md.year>>
                                      ELSE md.headIn[i].value]]
        [] md.mode = "modeBody" ->
             [md EXCEPT !.rows[md.currRow].Col = [i \in 0..FieldCount - 1 |-> md.bodyIn[i].value]]
        [] md.mode = "modeFooter" ->
             [md EXCEPT !.footer = [i \in 0..FootCount - 1 |-> md.footIn[i].value]]
        [] OTHER -> md)

commitCurrent(m) ==
    With(m, LAMBDA md :
      CASE md.mode = "modeHeader" ->
             [md EXCEPT !.header = [i \in 0..HeadCount - 1 |-> md.headIn[i].value]]
        [] md.mode = "modeBody" ->
             [md EXCEPT !.rows[md.currRow].Col = [i \in 0..FieldCount - 1 |-> md.bodyIn[i].value]]
        [] md.mode = "modeFooter" ->
             [md EXCEPT !.footer = [i \in 0..FootCount - 1 |-> md.footIn[i].value]]
        [] OTHER -> md)

setFocus(m) ==
    With(m, LAMBDA md :
      [md EXCEPT
         !.headIn = [i \in 0..HeadCount - 1 |->
                       IF md.mode = "modeHeader" /\ i = md.currCol
                       THEN Focus(md.headIn[i]) ELSE Blur(md.headIn[i])],
         !.bodyIn = [i \in 0..FieldCount - 1 |->
                       IF md.mode = "modeBody" /\ i = md.currCol
                       THEN Focus(md.bodyIn[i]) ELSE Blur(md.bodyIn[i])],
         !.footIn = [i \in 0..FootCount - 1 |->
                       IF md.mode = "modeFooter" /\ i = md.currCol
                       THEN Focus(md.footIn[i]) ELSE Blur(md.footIn[i])]])

loadCurrent(m) ==
    With(m, LAMBDA md :
      setFocus(
        CASE md.mode = "modeHeader" ->
               [md EXCEPT !.headIn = [i \in 0..HeadCount - 1 |->
                                        SetValue(md.headIn[i], md.header[i])]]
          [] md.mode = "modeBody" ->
               [md EXCEPT !.bodyIn = [i \in 0..FieldCount - 1 |->
                                        SetValue(md.bodyIn[i], md.rows[md.currRow].Col[i])]]
          [] md.mode = "modeFooter" ->
               [md EXCEPT !.footIn = [i \in 0..FootCount - 1 |->
                                        SetValue(md.footIn[i], md.footer[i])]]
          [] OTHER -> md))

switchMode(m, next) ==
    loadCurrent([commitCurrent(m) EXCEPT !.mode = next, !.currCol = 0])

wrapCol(m) ==
    With(m, LAMBDA md :
      CASE md.mode = "modeHeader" -> [md EXCEPT !.currCol = (md.currCol + HeadCount) % HeadCount]
        [] md.mode = "modeBody" -> [md EXCEPT !.currCol = (md.currCol + FieldCount) % FieldCount]
        [] md.mode = "modeFooter" -> [md EXCEPT !.currCol = (md.currCol + FootCount) % FootCount]
        [] OTHER -> md)

\* a variant of loadFromHTML that assigns the decoder's values before it
\* looks at the error
loadFromHTML_AssignsFirst(md, dk, path) ==
    With(ParseHTML(dk[path]), LAMBDA got :
      IF got.err # "nil"
      THEN [md |-> [md EXCEPT !.header = got.head, !.rows = got.rows, !.footer = got.foot],
            err |-> got.err]
      ELSE [md |-> loadCurrent([md EXCEPT !.header = got.head, !.rows = got.rows,
                                          !.footer = got.foot,
                                          !.currRow = 0, !.currCol = 0]),
            err |-> "nil"])

\* model.loadFromHTML(path), dk being the files: the model and the error
loadFromHTML(md, dk, path) ==
    With(ParseHTML(dk[path]), LAMBDA got :
      IF got.err # "nil" THEN [md |-> md, err |-> got.err]
      ELSE [md |-> loadCurrent([md EXCEPT !.header = got.head, !.rows = got.rows,
                                          !.footer = got.foot,
                                          !.currRow = 0, !.currCol = 0]),
            err |-> "nil"])

\* the messages: a key, a message with which the picker reports the
\* selection of path, or any other message (a window size, the picker's
\* directory listing)
Key(type) == [type |-> type]
Runes(ch) == [type |-> "KeyRunes", runes |-> <<ch>>]
Select(path) == [type |-> "select", path |-> path]
Other == [type |-> "other"]

IsKey(msg) == msg.type \notin {"select", "other"}

\* the number of inputs of the mode md.currCol indexes
InputCount(md) ==
    CASE md.mode = "modeHeader" -> HeadCount
      [] md.mode = "modeBody" -> FieldCount
      [] md.mode = "modeFooter" -> FootCount
      [] OTHER -> 0

\* "pass key to focused input": m.headIn[m.currCol], _ = m.headIn[m.currCol].Update(k)
\* and its like; the index expression panics when currCol is out of range
forward(m, dk, k) ==
    With(m, LAMBDA md :
      IF md.currCol >= InputCount(md)
      THEN [md |-> md, disk |-> dk, cmd |-> "panic"]
      ELSE [md |-> CASE md.mode = "modeHeader" ->
                          [md EXCEPT !.headIn[md.currCol] = InputUpdate(md.headIn[md.currCol], k)]
                     [] md.mode = "modeBody" ->
                          [md EXCEPT !.bodyIn[md.currCol] = InputUpdate(md.bodyIn[md.currCol], k)]
                     [] md.mode = "modeFooter" ->
                          [md EXCEPT !.footIn[md.currCol] = InputUpdate(md.footIn[md.currCol], k)],
            disk |-> dk, cmd |-> "nil"])

\* the year-select branch of Update
updateYearSelect(md, dk, msg) ==
    IF IsKey(msg) /\ msg.type \in {"KeyEsc", "KeyCtrlC"}
    THEN [md |-> md, disk |-> dk, cmd |-> "Quit"]
    ELSE [md |-> CASE msg.type = "KeyUp" ->
                        [md EXCEPT !.yearIdx = (md.yearIdx - 1 + Len(censusYears)) % Len(censusYears)]
                   [] msg.type = "KeyDown" ->
                        [md EXCEPT !.yearIdx = (md.yearIdx + 1) % Len(censusYears)]
                   [] msg.type = "KeyEnter" ->
                        loadCurrent([md EXCEPT !.year = censusYears[md.yearIdx + 1],
                                               !.mode = "modeHeader"])
                   [] OTHER -> md,
          disk |-> dk, cmd |-> "nil"]

\* a variant of the file-picker branch in which Esc and Ctrl-C quit
updatePickFile_EscQuits(md, dk, msg) ==
    IF msg.type = "select"
    THEN With(loadFromHTML(md, dk, msg.path), LAMBDA got :
           [md |-> [got.md EXCEPT !.justRead = (got.err = "nil"), !.mode = "modeHeader"],
            disk |-> dk, cmd |-> "nil"])
    ELSE IF msg.type \in {"KeyEsc", "KeyCtrlC"}
    THEN [md |-> md, disk |-> dk, cmd |-> "Quit"]
    ELSE [md |-> md, disk |-> dk, cmd |-> "picker"]

\* the file-picker branch of Update
updatePickFile(md, dk, msg) ==
    IF msg.type = "select"
    THEN With(loadFromHTML(md, dk, msg.path), LAMBDA got :
           [md |-> [got.md EXCEPT !.justRead = (got.err = "nil"), !.mode = "modeHeader"],
            disk |-> dk, cmd |-> "nil"])
    ELSE IF msg.type \in {"KeyEsc", "KeyCtrlC"}
    THEN [md |-> [md EXCEPT !.mode = "modeHeader"], disk |-> dk, cmd |-> "nil"]
    ELSE [md |-> md, disk |-> dk, cmd |-> "picker"]

\* a variant that saves over the file that can be opened
saveFile_Opened == "other.html"

\* the file name in tpl.WriteHTML(m.header, m.rows[:], m.footer, "census.html")
saveFile == "census.html"

\* a variant of the Ctrl-N loop that resets the focused input only
clearRow_FocusedOnly(md) ==
    [md EXCEPT !.bodyIn[md.currCol] = SetValue(md.bodyIn[md.currCol], <<>>)]

\* case tea.KeyCtrlN in body mode: for i := range m.bodyIn { m.bodyIn[i].SetValue("") }
clearRow(md) ==
    [md EXCEPT !.bodyIn = [i \in 0..FieldCount - 1 |-> SetValue(md.bodyIn[i], <<>>)]]

\* the editing branch of Update
updateEditing(md, dk, k) ==
    CASE ~IsKey(k) -> [md |-> md, disk |-> dk, cmd |-> "nil"]
      [] k.type \in {"KeyEsc", "KeyCtrlC"} -> [md |-> md, disk |-> dk, cmd |-> "Quit"]
      [] k.type = "KeyCtrlO" ->
           [md |-> [commitCurrent(md) EXCEPT !.mode = "modePickFile"], disk |-> dk,
            cmd |-> "picker.Init"]
      [] k.type = "KeyCtrlH" -> forward(switchMode(md, "modeHeader"), dk, k)
      [] k.type = "KeyCtrlB" -> forward(switchMode(md, "modeBody"), dk, k)
      [] k.type = "KeyCtrlF" -> forward(switchMode(md, "modeFooter"), dk, k)
      [] k.type = "KeyTab" ->
           forward(setFocus(wrapCol([md EXCEPT !.currCol = md.currCol + 1])), dk, k)
      [] k.type = "KeyShiftTab" ->
           forward(setFocus(wrapCol([md EXCEPT !.currCol = md.currCol - 1])), dk, k)
      [] k.type = "KeyUp" ->
           forward(IF md.mode = "modeBody" /\ md.currRow > 0
                   THEN loadCurrent([commitCurrent(md) EXCEPT !.currRow = md.currRow - 1])
                   ELSE md, dk, k)
      [] k.type = "KeyDown" ->
           forward(IF md.mode = "modeBody" /\ md.currRow < RowCount - 1
                   THEN loadCurrent([commitCurrent(md) EXCEPT !.currRow = md.currRow + 1])
                   ELSE md, dk, k)
      [] k.type = "KeyCtrlN" ->
           forward(IF md.mode = "modeBody" THEN clearRow(md) ELSE md, dk, k)
      [] k.type = "KeyCtrlW" ->
           With(commitCurrent(md), LAMBDA md1 :
             forward([md1 EXCEPT !.justWrote = TRUE],
                     [dk EXCEPT ![saveFile] =
                         pageTmpl([Header |-> md1.header, Rows |-> md1.rows,
                                   Footer |-> md1.footer])],
                     k))
      [] OTHER -> forward(md, dk, k)

\* model.Update(msg): the model, the files and the command it returns
Update(m, dk, msg) ==
    With([m EXCEPT !.justWrote = FALSE, !.justRead = FALSE], LAMBDA md :
      IF md.mode = "modeYearSelect" THEN updateYearSelect(md, dk, msg)
      ELSE IF md.mode = "modePickFile" THEN updatePickFile(md, dk, msg)
      ELSE updateEditing(md, dk, msg))

(***************************************************************************)
(* The program run: tea.NewProgram(NewModel()) delivers messages to Update  *)
(* one at a time.  The variables header, rows and footer are the model's    *)
(* fields of those names, ui holds its other fields and the command the     *)
(* last Update returned; op holds the last message and how many messages    *)
(* of each class the user has sent.                                         *)
(***************************************************************************)

TheModel ==
    [header |-> header, rows |-> rows, footer |-> footer,
     year |-> ui.year, yearIdx |-> ui.yearIdx,
     mode |-> ui.mode, currRow |-> ui.currRow, currCol |-> ui.currCol,
     justWrote |-> ui.justWrote, justRead |-> ui.justRead,
     headIn |-> ui.headIn, bodyIn |-> ui.bodyIn, footIn |-> ui.footIn]

UIOf(md, cmd) ==
    [year |-> md.year, yearIdx |-> md.yearIdx,
     mode |-> md.mode, currRow |-> md.currRow, currCol |-> md.currCol,
     justWrote |-> md.justWrote, justRead |-> md.justRead,
     headIn |-> md.headIn, bodyIn |-> md.bodyIn, footIn |-> md.footIn,
     cmd |-> cmd]

\* a value one character longer than an input accepts
LongText == [i \in 1..CharLimit + 1 |-> "a"]

\* a value with a line break inside
TwoLines == <<"a", "\n", "b">>

\* the page of the file the user can open: values in the first and last
\* rows and columns, one of them over-long and one of two lines
FilePage ==
    LET p == Tagged(0..HeadCount - 1, {<<0, 0>>, <<0, 4>>, <<1, 1>>, <<24, 11>>}, 0..FootCount - 1)
    IN  [p EXCEPT !.Rows[1].Col[2] = LongText, !.Rows[1].Col[3] = TwoLines]

\* the keys the user presses: in each mode, the keys that mode reads
Typed == {"a"}

KeysOf(mode) ==
    CASE mode = "modeYearSelect" ->
           {Key(t) : t \in {"KeyEsc", "KeyCtrlC", "KeyUp", "KeyDown", "KeyEnter"}}
      [] mode = "modePickFile" ->
           {Key(t) : t \in {"KeyEsc", "KeyCtrlC"}}
      [] OTHER ->
           {Key(t) : t \in {"KeyEsc", "KeyCtrlC", "KeyCtrlH", "KeyCtrlB", "KeyCtrlF",
                             "KeyCtrlO", "KeyTab", "KeyShiftTab", "KeyUp", "KeyDown",
                             "KeyCtrlN", "KeyCtrlW"}}
             \cup {Runes(ch) : ch \in Typed}

\* the class of a message, for the count of what the user has sent
Class(msg) ==
    CASE msg.type = "KeyRunes" -> "type"
      [] msg.type \in {"KeyTab", "KeyShiftTab"} -> "tab"
      [] msg.type \in {"KeyCtrlH", "KeyCtrlB", "KeyCtrlF"} -> "switch"
      [] msg.type \in {"KeyUp", "KeyDown"} -> "move"
      [] msg.type = "KeyCtrlN" -> "clear"
      [] msg.type = "KeyCtrlW" -> "write"
      [] msg.type = "KeyCtrlO" -> "open"
      [] msg.type \in {"KeyEsc", "KeyCtrlC"} -> "esc"
      [] msg.type = "select" -> "select"
      [] OTHER -> "other"

Classes == {"type", "tab", "switch", "move", "clear", "write", "open", "esc", "select", "other"}

\* the user sends at most MaxKeys messages, at most Cap[c] of them of class
\* c; outside the file picker Esc and Ctrl-C are pressed, and other messages
\* arrive, only among the first MaxEarly
MaxKeys == 6
MaxEarly == 3
MaxType == 2
MaxTab == 1
MaxSwitch == 2
MaxMove == 2

Cap ==
    [c \in Classes |->
        CASE c = "type" -> MaxType
          [] c = "tab" -> MaxTab
          [] c = "switch" -> MaxSwitch
          [] c = "move" -> MaxMove
          [] OTHER -> 1]

Running == ui.cmd \notin {"Quit", "panic"}

MaySend(msg) ==
    /\ Running
    /\ op.sent < MaxKeys
    /\ op.used[Class(msg)] < Cap[Class(msg)]
    /\ ((Class(msg) = "esc" /\ ui.mode # "modePickFile") \/ msg.type = "other")
          => op.sent < MaxEarly

RECURSIVE Repeat(_, _, _, _)
\* Update applied n times to the same message: a key held down
Repeat(md, dk, msg, n) ==
    IF n = 0 THEN [md |-> md, disk |-> dk, cmd |-> "nil"]
    ELSE With(Update(md, dk, msg), LAMBDA r :
           IF n = 1 \/ r.cmd \in {"Quit", "panic"} THEN r
           ELSE Repeat(r.md, r.disk, msg, n - 1))

Deliver(msg, n) ==
    \E r \in {Repeat(TheModel, disk, msg, n)} :
        /\ header' = r.md.header
        /\ rows' = r.md.rows
        /\ footer' = r.md.footer
        /\ disk' = r.disk
        /\ ui' = UIOf(r.md, r.cmd)
        /\ op' = [name |-> "Update", msg |-> msg, n |-> n, from |-> ui.mode,
                  prev |-> op.msg,
                  sent |-> op.sent + 1,
                  used |-> [op.used EXCEPT ![Class(msg)] = @ + 1]]
        /\ UNCHANGED <<made, res>>

\* the user presses a key
Press(k) ==
    /\ MaySend(k)
    /\ k \in KeysOf(ui.mode)
    /\ Deliver(k, 1)

\* the user holds Up or Down in body mode until the first or last row
Hold(k) ==
    /\ MaySend(k)
    /\ ui.mode = "modeBody"
    /\ Deliver(k, RowCount - 1)

\* the picker reports the selection of path
Pick(path) ==
    /\ MaySend(Select(path))
    /\ ui.mode = "modePickFile"
    /\ Deliver(Select(path), 1)

\* a message that is no key arrives
Arrive ==
    /\ MaySend(Other)
    /\ Deliver(Other, 1)

UIInit ==
    /\ header = NewModel.header
    /\ rows = NewModel.rows
    /\ footer = NewModel.footer
    /\ ui = UIOf(NewModel, "nil")
    /\ \E absent \in {NoFile, ReadFails(pageTmpl(BlankPage))} :
         disk = [p \in Paths |-> IF p = "other.html" THEN pageTmpl(FilePage) ELSE absent]
    /\ made = NotMade
    /\ res = NoResult
    /\ op = [name |-> "start", msg |-> Other, sent |-> 0, used |-> [c \in Classes |-> 0]]

UINext ==
    \/ \E k \in UNION {KeysOf(mode) : mode \in {"modeYearSelect", "modePickFile", "modeHeader"}} :
          Press(k)
    \/ \E k \in {Key("KeyUp"), Key("KeyDown")} : Hold(k)
    \/ \E path \in Paths : Pick(path)
    \/ Arrive

UISpec == UIInit /\ [][UINext]_vars

(***************************************************************************)
(* What the claims about the program run speak of                           *)
(***************************************************************************)

\* the last message was a key of type t
LastKey(t) == op.name = "Update" /\ op.msg.type = t

\* the last message selected a file in the picker and the load succeeded
JustLoaded == op.name = "Update" /\ op.msg.type = "select" /\ ui.justRead

\* the page in memory is what ParseHTML returns for the markup f
InMemoryIs(f) ==
    ParseHTML(f) = [head |-> header, rows |-> rows, foot |-> footer, err |-> "nil"]

\* C13 as stated: after a successful selection in the file picker the header,
\* rows and footer in memory are what the file decodes to, and a Ctrl-W
\* pressed next writes a census.html that decodes to the same header, rows
\* and footer as the file that was opened.
C13_ReopenThenSave ==
    /\ JustLoaded => InMemoryIs(disk[op.msg.path])
    /\ (/\ LastKey("KeyCtrlW")
        /\ op.prev.type = "select"
        /\ op.prev.path # "census.html"
        /\ ParseHTML(disk[op.prev.path]).err = "nil")
          => ParseHTML(disk["census.html"]) = ParseHTML(disk[op.prev.path])


\* the three editing modes of Update's last branch
EditModes == {"modeHeader", "modeBody", "modeFooter"}

\* the form as the user sees it: the input widgets' values for the active
\* area, the stored values for everything else
Form ==
    [Header |-> IF ui.mode = "modeHeader"
                THEN [i \in 0..HeadCount - 1 |-> ui.headIn[i].value] ELSE header,
     Rows   |-> IF ui.mode = "modeBody"
                THEN [rows EXCEPT ![ui.currRow].Col =
                        [i \in 0..FieldCount - 1 |-> ui.bodyIn[i].value]]
                ELSE rows,
     Footer |-> IF ui.mode = "modeFooter"
                THEN [i \in 0..FootCount - 1 |-> ui.footIn[i].value] ELSE footer]

\* a step of the program that handles key t in an editing mode
Handles(t) ==
    /\ op'.name = "Update" /\ op'.msg.type = t
    /\ ui.mode \in EditModes /\ ui'.cmd # "panic"

\* C14 as stated: in an editing mode, Tab/Shift-Tab, Up/Down and the
\* Ctrl-H/B/F mode switches lose no field value of the form, and Ctrl-W
\* writes the document of the form as it stands (active inputs committed).
C14_SaveWritesForm ==
    [][/\ \A t \in {"KeyTab", "KeyShiftTab", "KeyUp", "KeyDown",
                    "KeyCtrlH", "KeyCtrlB", "KeyCtrlF"} :
            Handles(t) => Form' = Form
       /\ Handles("KeyCtrlW") => disk'["census.html"] = pageTmpl(Form)]_vars

\* the keys whose handling begins with commitCurrent
CommitKeys == {"KeyUp", "KeyDown", "KeyCtrlH", "KeyCtrlB", "KeyCtrlF", "KeyCtrlO", "KeyCtrlW"}

\* a step that handles one press of key t in an editing mode and runs
\* commitCurrent
Commits(t) ==
    /\ Handles(t) /\ t \in CommitKeys /\ op'.n = 1
    /\ t = "KeyUp" => ui.mode = "modeBody" /\ ui.currRow > 0
    /\ t = "KeyDown" => ui.mode = "modeBody" /\ ui.currRow < RowCount - 1

\* the last message handled was Ctrl-N in body mode
ClearedRow == LastKey("KeyCtrlN") /\ op.from = "modeBody"

\* C15: Ctrl-N changes no stored field; in body mode it empties the 12
\* inputs of the current row and the next commit (row change, mode switch,
\* open or save) stores an empty row at currRow and leaves every other row,
\* the header and the footer unchanged; in header or footer mode Ctrl-N
\* changes no field of the form.
C15_ClearRowOnly ==
    [][/\ Handles("KeyCtrlN") =>
            /\ <<header', rows', footer'>> = <<header, rows, footer>>
            /\ Form' = IF ui.mode = "modeBody"
                       THEN [Form EXCEPT !.Rows[ui.currRow] = BlankRow]
                       ELSE Form
       /\ \A t \in CommitKeys :
            ClearedRow /\ Commits(t) =>
                /\ rows' = [rows EXCEPT ![ui.currRow] = BlankRow]
                /\ header' = header /\ footer' = footer]_vars

\* a loaded row with values was cleared with Ctrl-N and then committed by
\* the save; the other rows and the footer keep the loaded values
C15_Witness ==
    /\ LastKey("KeyCtrlW") /\ op.prev.type = "KeyCtrlN" /\ op.from = "modeBody"
    /\ ui.currRow = 0 /\ FilePage.Rows[0] # BlankRow
    /\ rows = [FilePage.Rows EXCEPT ![0] = BlankRow]
    /\ footer = FilePage.Footer

\* what the 12 body inputs show
BodyShown == [i \in 0..FieldCount - 1 |-> ui.bodyIn[i].value]

\* a step that handles one Up (d = -1) or one Down (d = 1)
Moves(d) ==
    /\ Handles(IF d = 1 THEN "KeyDown" ELSE "KeyUp")
    /\ op'.n = 1

\* Up at the first row, Down at the last
AtEdge(d) == ui.currRow = (IF d = 1 THEN RowCount - 1 ELSE 0)

\* C16 as stated: currRow stays within 0..24; Up at row 0 and Down at row 24
\* change nothing; any other Up/Down in body mode stores the inputs in the
\* row being left, moves by one row and shows the stored values of the row
\* entered; Up/Down in header or footer mode changes no row.
C16_RowNavigation ==
    /\ [](ui.currRow \in 0..RowCount - 1)
    /\ [][\A d \in {-1, 1} :
            Moves(d) =>
              IF ui.mode = "modeBody" /\ ~AtEdge(d)
              THEN /\ rows' = [rows EXCEPT ![ui.currRow].Col = BodyShown]
                   /\ ui'.currRow = ui.currRow + d
                   /\ BodyShown' = rows'[ui'.currRow].Col
                   /\ header' = header /\ footer' = footer
              ELSE /\ <<header', rows', footer'>> = <<header, rows, footer>>
                   /\ ui'.currRow = ui.currRow
                   /\ Form' = Form]_vars

\* the last message handled was Esc or Ctrl-C
Escaped == op.name = "Update" /\ op.msg.type \in {"KeyEsc", "KeyCtrlC"}

\* C17 as stated: Esc or Ctrl-C yields the quit command in every mode.
C17_QuitEveryMode == Escaped => ui.cmd = "Quit"

\* C17 amended: Esc or Ctrl-C yields the quit command in year-select,
\* header, body and footer mode; in file-picker mode it cancels the picker:
\* the program returns to header mode and no quit command is issued.
C17_QuitOutsidePicker ==
    Escaped =>
        IF op.from = "modePickFile"
        THEN ui.cmd = "nil" /\ ui.mode = "modeHeader"
        ELSE ui.cmd = "Quit" /\ ui.mode = op.from

\* Esc pressed in the file picker
C17_Witness == Escaped /\ op.from = "modePickFile" /\ ui.mode = "modeHeader"

\* the stored page
Stored == [Header |-> header, Rows |-> rows, Footer |-> footer]

\* the document of the stored page
StoredDoc == pageTmpl(Stored)

\* a step that handles Ctrl-W in an editing mode
Saves == op'.name = "Update" /\ op'.msg.type = "KeyCtrlW" /\ ui.mode \in EditModes

\* C18: Ctrl-W replaces census.html by the document of the whole current
\* page and changes no other file; no other step changes any file, so a
\* file opened with Ctrl-O is never written.
C18_SavesToCensusHtml ==
    [][IF Saves
       THEN \E page \in {Stored'} : disk' = [disk EXCEPT !["census.html"] = pageTmpl(page)]
       ELSE disk' = disk]_vars

\* other.html was opened and the page then saved: census.html holds the
\* current page and other.html is as it was
C18_Witness ==
    /\ LastKey("KeyCtrlW") /\ op.prev.type = "select" /\ op.prev.path = "other.html"
    /\ rows = FilePage.Rows /\ footer = FilePage.Footer
    /\ disk["census.html"] = StoredDoc
    /\ disk["other.html"] = pageTmpl(FilePage)
    /\ disk["census.html"] # disk["other.html"]

\* a step in which the file selected in the picker fails to load
FailsToOpen ==
    /\ op'.name = "Update" /\ op'.msg.type = "select" /\ ui.mode = "modePickFile"
    /\ ParseHTML(disk[op'.msg.path]).err # "nil"

\* what the input widgets hold
Inputs == <<ui.headIn, ui.bodyIn, ui.footIn>>

\* C19: when the file selected in the picker cannot be opened or its reading
\* fails, the stored header, rows and footer are what they were, no load
\* confirmation is shown, no command is issued that would try again, no
\* file or input changes, and the program is in header mode.
C19_FailedOpenKeepsPage ==
    [][FailsToOpen =>
          /\ <<header', rows', footer'>> = <<header, rows, footer>>
          /\ ~ui'.justRead
          /\ ui'.cmd = "nil"
          /\ ui'.mode = "modeHeader"
          /\ Inputs' = Inputs
          /\ disk' = disk]_vars

\* a typed header value survives the selection of a file that fails to load
C19_Witness ==
    /\ LastKey("select") /\ op.from = "modePickFile"
    /\ ParseHTML(disk[op.msg.path]).err # "nil"
    /\ header[0] = <<"a">> /\ ui.mode = "modeHeader" /\ ~ui.justRead

RECURSIVE NodesFrom(_, _)
\* the nodes of the tree under node, which is at n, in document order
NodesFrom(node, n) ==
    <<n>> \o (IF node.kids = <<>> THEN <<>>
              ELSE Concat([i \in 1..Len(node.kids) |-> NodesFrom(node.kids[i], n \o <<i>>)]))

\* the td of doc with a tfoot ancestor and no colspan, in document order
FooterCells(doc) ==
    SelectSeq(NodesFrom(doc, <<>>),
              LAMBDA n : /\ is(doc, n, "td")
                         /\ ancestorTag(doc, n, "tfoot")
                         /\ ~hasColspan(At(doc, n)))

\* the footer slots filled from the cells q of doc
SlotsOf(doc, q) ==
    [k \in 0..FootCount - 1 |-> IF k < Len(q) THEN text(doc, q[k + 1]) ELSE <<>>]

\* C20 as stated: the footer slots are the trimmed texts of the first four
\* td, in document order over the whole document, that have a tfoot ancestor
\* at any depth and no colspan attribute, a td nested inside a tfoot td with
\* colspan included.
C20_EveryQualifyingCell ==
    DecodedForeign =>
        \E doc \in {Parse(disk[op.path])} : res.foot = SlotsOf(doc, FooterCells(doc))

\* the tr of doc with a tbody ancestor, in document order
BodyTrs(doc) ==
    SelectSeq(NodesFrom(doc, <<>>),
              LAMBDA n : is(doc, n, "tr") /\ ancestorTag(doc, n, "tbody"))

\* the td among the children of the node n
DirectTds(doc, n) == SelectSeq(Children(doc, n), LAMBDA c : is(doc, c, "td"))

\* the row slots filled from the rows q of doc, column j from the j-th
\* direct td child
RowSlots(doc, q) ==
    [r \in 0..RowCount - 1 |->
       [Col |-> [j \in 0..FieldCount - 1 |->
                   IF r < Len(q) /\ j < Len(DirectTds(doc, q[r + 1]))
                   THEN text(doc, DirectTds(doc, q[r + 1])[j + 1])
                   ELSE <<>>]]]

\* C21: the row slots are filled from the first 25 tr that have a tbody
\* ancestor and from no other tr; in each, the j-th td among the direct
\* children fills column j for j < 12, whatever else stands between them,
\* and the columns the row has no td for are empty.
C21_RowExtraction ==
    DecodedForeign =>
        \E doc \in {Parse(disk[op.path])} : res.rows = RowSlots(doc, BodyTrs(doc))

\* a document with td cells in thead and tfoot rows and a table inside a
\* body cell was decoded: the inner td is no column of the outer row, and
\* the inner row is the second row
C21_Witness ==
    /\ DecodedForeign /\ made = NestedRows
    /\ res.rows[0].Col[0] = <<"c", "0">>
    /\ res.rows[0].Col[1] = <<"x", "i", "n">>
    /\ res.rows[0].Col[2] = <<>>
    /\ res.rows[1].Col[0] = <<"i", "n">>
    /\ res.rows[2] = BlankRow

\* the number of inputs of the current mode
InputsOfMode ==
    CASE ui.mode = "modeHeader" -> HeadCount
      [] ui.mode = "modeBody" -> FieldCount
      [] ui.mode = "modeFooter" -> FootCount
      [] OTHER -> 0

\* C22 as stated: in header, body and footer mode currCol is an index of
\* the mode's inputs, and the key forwarded to the input at currCol never
\* indexes out of range.
C22_CursorValid ==
    /\ ui.mode \in EditModes => ui.currCol \in 0..InputsOfMode - 1
    /\ ui.cmd # "panic"

\* the input widgets that have the focus, each as <<mode, index>>
Focused ==
    {<<"modeHeader", i>> : i \in {j \in 0..HeadCount - 1 : ui.headIn[j].focus}}
      \cup {<<"modeBody", i>> : i \in {j \in 0..FieldCount - 1 : ui.bodyIn[j].focus}}
      \cup {<<"modeFooter", i>> : i \in {j \in 0..FootCount - 1 : ui.footIn[j].focus}}

\* the last message made the program enter an editing mode: Enter on the
\* year menu, Ctrl-H/B/F, or a selection or a cancel in the file picker
JustEntered ==
    /\ op.name = "Update" /\ ui.mode \in EditModes
    /\ \/ op.from = "modeYearSelect" /\ op.msg.type = "KeyEnter"
       \/ op.from \in EditModes /\ op.msg.type \in {"KeyCtrlH", "KeyCtrlB", "KeyCtrlF"}
       \/ op.from = "modePickFile" /\ op.msg.type \in {"select", "KeyEsc", "KeyCtrlC"}

\* C23 as stated: in header, body and footer mode exactly one input has the
\* focus, the one at currCol of the current mode; right after entering a
\* mode the inputs of that mode hold the stored values of the page.
C23_InputsMirrorPage ==
    /\ ui.mode \in EditModes => Focused = {<<ui.mode, ui.currCol>>}
    /\ JustEntered => Form = Stored

\* C24 as stated: for either encoder/decoder pair, the page decoded from a
\* written document, written and decoded again, comes back as it was.
C24_ReloadStable ==
    op.name = "Reopen" => res = op.first

\* the last step decoded census.html as one of the encoders wrote it
DecodedWritten ==
    /\ op.name \in {"ParseHTML", "parseHTML"}
    /\ op.path = "census.html"
    /\ op.after \in {"WriteHTML", "writeHTML"}

\* C25 as stated: for every page, the document of template.WriteHTML and
\* the document of the monolithic writeHTML decode to the same header, rows
\* and footer, under parser.ParseHTML and under the monolithic parseHTML.
C25_CopiesInterchangeable ==
    DecodedWritten =>
        \E a \in {pageTmpl(Stored)}, b \in {pageTmplMono(Stored)} :
            /\ ParseHTML(a) = res /\ parseHTML(a) = res
            /\ ParseHTML(b) = res /\ parseHTML(b) = res

\* C26: when rendering fails the encoder returns the error and leaves every
\* file, the one at the destination included, as it was; when rendering
\* succeeds the destination, whatever it held, becomes the whole rendered
\* document and no other file changes.
C26_RenderFailureWritesNothing ==
    [][op'.name = "Overwrite" =>
          IF op'.renders
          THEN /\ op'.err = "nil"
               /\ disk' = [disk EXCEPT ![op'.path] =
                             IF op'.by = "WriteHTML" THEN pageTmpl(Stored)
                             ELSE pageTmplMono(Stored)]
          ELSE /\ op'.err # "nil"
               /\ disk' = disk]_vars

\* rendering failed at a destination that held another program's document,
\* and the document is still there
C26_Witness ==
    /\ op.name = "Overwrite" /\ ~op.renders /\ op.err = "render"
    /\ made \in OverDocs
    /\ disk["other.html"] = ForeignDoc(made)

\* the sessions in which the effect of the year is looked for: those of
\* UISpec of at most MaxYearKeys messages
MaxYearKeys == 5

YearNext == UINext /\ op'.sent <= MaxYearKeys

YearSpec == UIInit /\ [][YearNext]_vars

\* the model as it would be had the year at index y been highlighted, and
\* chosen if a year is chosen
WithYear(md, y) ==
    [md EXCEPT !.yearIdx = y,
               !.year = IF md.year = "" THEN "" ELSE censusYears[y + 1]]

\* the program's state but the year
YearFree(u) == [u EXCEPT !.yearIdx = 0, !.year = ""]

\* C27: the census year reaches no file and no other part of the state:
\* Up and Down on the year menu change the highlighted year only, and what
\* any message does to the page, the inputs, the mode and the files is the
\* same whichever year is highlighted or chosen; so two sessions that differ
\* in the year only write the same census.html.
C27_YearNotSaved ==
    [][op'.name = "Update" =>
          /\ (op'.from = "modeYearSelect" /\ op'.msg.type \in {"KeyUp", "KeyDown"})
                => /\ <<header', rows', footer', disk'>> = <<header, rows, footer, disk>>
                   /\ YearFree(ui') = YearFree(ui)
          /\ \A y \in 0..Len(censusYears) - 1 :
                \E r \in {Repeat(WithYear(TheModel, y), disk, op'.msg, op'.n)} :
                    /\ r.md.header = header' /\ r.md.rows = rows' /\ r.md.footer = footer'
                    /\ r.disk = disk'
                    /\ YearFree(UIOf(r.md, r.cmd)) = YearFree(ui')]_vars

\* a session in which another year than the default was chosen has typed a
\* header value and saved: the file is the document of the page alone
C27_Witness ==
    /\ LastKey("KeyCtrlW") /\ ui.year \notin {"", "1861"}
    /\ header[0] = <<"a">>
    /\ disk["census.html"] = pageTmpl(Stored)
====
